---- MODULE Spec2Model ----
(***************************************************************************)
(* Model of kirl_semantic_analyzer (src/lib.rs): the HIRType value, its    *)
(* derived ordering, the subtype relation is_a, the normalization of       *)
(* unions, substitution, projection, intersect_to, the lenient relation    *)
(* possibility_assignable_to, the conversions into HIRType and the         *)
(* top-level splitter collect_top_level_item_with_imports.                 *)
(*                                                                         *)
(* A HIRType value is a tagged tuple.  A Vec is a sequence, a Box is its   *)
(* content, and a BTreeMap<String, HIRType> is the sequence of its         *)
(* <<key, value>> entries in ascending key order (the order in which a     *)
(* BTreeMap iterates), so that structural equality of the encoding is the  *)
(* derived PartialEq of the source.                                        *)
(***************************************************************************)
EXTENDS Integers, Sequences, FiniteSets, TLC

(* self, rhs, before, op, result, calls: the receiver and the argument of  *)
(* an operation on types, the receiver before the last normalize, the last *)
(* operation, what it returned and the number of normalize calls.          *)
(* top_level_statements, cursor, statements, structs, functions, imports:  *)
(* the argument of collect_top_level_item_with_imports, the position of    *)
(* its for loop and its four local vectors.                                *)
VARIABLES self, rhs, before, op, result, calls,
          top_level_statements, cursor, statements, structs, functions, imports

type_vars == <<self, rhs, before, op, result, calls>>

split_vars == <<top_level_statements, cursor, statements, structs, functions, imports>>

vars == <<type_vars, split_vars>>

-----------------------------------------------------------------------------
(* enum HIRType: one constructor per variant *)

Infer == <<"Infer">>

Unreachable == <<"Unreachable">>

GenericsTypeArgument(i) == <<"GenericsTypeArgument", i>>

Named(path, generics_arguments) == <<"Named", path, generics_arguments>>

Tuple(items) == <<"Tuple", items>>

Array(item) == <<"Array", item>>

Function(arguments, res) == <<"Function", arguments, res>>

AnonymousStruct(members) == <<"AnonymousStruct", members>>

Or(items) == <<"Or", items>>

Kind(ty) == ty[1]

(* BTreeMap::get and BTreeMap::contains_key on the entry sequence *)
contains_key(members, key) == \E i \in 1..Len(members) : members[i][1] = key

get(members, key) == members[CHOOSE i \in 1..Len(members) : members[i][1] = key][2]

Min(a, b) == IF a <= b THEN a ELSE b

-----------------------------------------------------------------------------
(* #[derive(Ord, PartialOrd)] on HIRType: the variant index first, then    *)
(* the fields in declaration order; Vec and BTreeMap compare               *)
(* lexicographically, String by bytes, usize by value.                     *)
(* Every comparison returns -1, 0 or 1.                                    *)

VariantIndex(ty) ==
    CASE Kind(ty) = "Infer" -> 0
      [] Kind(ty) = "Unreachable" -> 1
      [] Kind(ty) = "GenericsTypeArgument" -> 2
      [] Kind(ty) = "Named" -> 3
      [] Kind(ty) = "Tuple" -> 4
      [] Kind(ty) = "Array" -> 5
      [] Kind(ty) = "Function" -> 6
      [] Kind(ty) = "AnonymousStruct" -> 7
      [] Kind(ty) = "Or" -> 8

(* byte order of the strings the model uses: 'N' < 'S' < 'a' < 'b' *)
StringRank(s) ==
    CASE s = "Number" -> 0
      [] s = "String" -> 1
      [] s = "a" -> 2
      [] s = "b" -> 3

cmp_usize(a, b) == IF a < b THEN -1 ELSE IF a > b THEN 1 ELSE 0

cmp_String(a, b) == cmp_usize(StringRank(a), StringRank(b))

RECURSIVE cmp_path(_, _)
cmp_path(p, q) ==
    IF p = <<>> THEN (IF q = <<>> THEN 0 ELSE -1)
    ELSE IF q = <<>> THEN 1
    ELSE LET c == cmp_String(Head(p), Head(q))
         IN IF c # 0 THEN c ELSE cmp_path(Tail(p), Tail(q))

RECURSIVE cmp(_, _), cmp_Vec(_, _), cmp_BTreeMap(_, _)
cmp(a, b) ==
    IF VariantIndex(a) # VariantIndex(b)
    THEN cmp_usize(VariantIndex(a), VariantIndex(b))
    ELSE CASE Kind(a) \in {"Infer", "Unreachable"} -> 0
           [] Kind(a) = "GenericsTypeArgument" -> cmp_usize(a[2], b[2])
           [] Kind(a) = "Named" ->
                LET c == cmp_path(a[2], b[2])
                IN IF c # 0 THEN c ELSE cmp_Vec(a[3], b[3])
           [] Kind(a) \in {"Tuple", "Or"} -> cmp_Vec(a[2], b[2])
           [] Kind(a) = "Array" -> cmp(a[2], b[2])
           [] Kind(a) = "Function" ->
                LET c == cmp_Vec(a[2], b[2])
                IN IF c # 0 THEN c ELSE cmp(a[3], b[3])
           [] Kind(a) = "AnonymousStruct" -> cmp_BTreeMap(a[2], b[2])

cmp_Vec(s, t) ==
    IF s = <<>> THEN (IF t = <<>> THEN 0 ELSE -1)
    ELSE IF t = <<>> THEN 1
    ELSE LET c == cmp(Head(s), Head(t))
         IN IF c # 0 THEN c ELSE cmp_Vec(Tail(s), Tail(t))

cmp_BTreeMap(m, n) ==
    IF m = <<>> THEN (IF n = <<>> THEN 0 ELSE -1)
    ELSE IF n = <<>> THEN 1
    ELSE LET ck == cmp_String(Head(m)[1], Head(n)[1])
         IN IF ck # 0 THEN ck
            ELSE LET cv == cmp(Head(m)[2], Head(n)[2])
                 IN IF cv # 0 THEN cv ELSE cmp_BTreeMap(Tail(m), Tail(n))

-----------------------------------------------------------------------------
(* HIRType::is_a: the ordered match arms, first match wins *)

(* the mutation of is_a_arm in which the arm (_, Unreachable) => false     *)
(* comes before the arm (Unreachable, _) => true                           *)
is_a_arm_unreachable_swapped(ty1, ty2) ==
    IF Kind(ty1) = "Infer" THEN 1
    ELSE IF Kind(ty2) = "Infer" THEN 2
    ELSE IF Kind(ty2) = "Unreachable" THEN 4
    ELSE IF Kind(ty1) = "Unreachable" THEN 3
    ELSE IF Kind(ty1) = "GenericsTypeArgument" /\ Kind(ty2) = "GenericsTypeArgument" THEN 5
    ELSE IF Kind(ty1) = "Named" /\ Kind(ty2) = "Named" THEN 6
    ELSE IF Kind(ty1) = "Tuple" /\ Kind(ty2) = "Tuple" THEN 7
    ELSE IF Kind(ty1) = "Array" /\ Kind(ty2) = "Array" THEN 8
    ELSE IF Kind(ty1) = "Function" /\ Kind(ty2) = "Function" THEN 9
    ELSE IF Kind(ty1) = "AnonymousStruct" /\ Kind(ty2) = "AnonymousStruct" THEN 10
    ELSE IF Kind(ty1) = "Or" THEN 11
    ELSE IF Kind(ty2) = "Or" THEN 12
    ELSE 13

(* the number (1..13, in source order) of the first arm of the match in    *)
(* is_a whose pattern matches (self, rhs)                                  *)
is_a_arm(ty1, ty2) ==
    IF Kind(ty1) = "Infer" THEN 1
    ELSE IF Kind(ty2) = "Infer" THEN 2
    ELSE IF Kind(ty1) = "Unreachable" THEN 3
    ELSE IF Kind(ty2) = "Unreachable" THEN 4
    ELSE IF Kind(ty1) = "GenericsTypeArgument" /\ Kind(ty2) = "GenericsTypeArgument" THEN 5
    ELSE IF Kind(ty1) = "Named" /\ Kind(ty2) = "Named" THEN 6
    ELSE IF Kind(ty1) = "Tuple" /\ Kind(ty2) = "Tuple" THEN 7
    ELSE IF Kind(ty1) = "Array" /\ Kind(ty2) = "Array" THEN 8
    ELSE IF Kind(ty1) = "Function" /\ Kind(ty2) = "Function" THEN 9
    ELSE IF Kind(ty1) = "AnonymousStruct" /\ Kind(ty2) = "AnonymousStruct" THEN 10
    ELSE IF Kind(ty1) = "Or" THEN 11
    ELSE IF Kind(ty2) = "Or" THEN 12
    ELSE 13

RECURSIVE is_a(_, _)

(* arm 6: path1 == path2 && arg1.len() == arg2.len() && zip.all(is_a) *)
is_a_Named(ty1, ty2) ==
    /\ ty1[2] = ty2[2]
    /\ Len(ty1[3]) = Len(ty2[3])
    /\ \A i \in 1..Min(Len(ty1[3]), Len(ty2[3])) : is_a(ty1[3][i], ty2[3][i])

(* the mutation of is_a_Tuple that asks for a tuple of another length *)
is_a_Tuple_other_length(items1, items2) ==
    /\ Len(items1) # Len(items2)
    /\ \A i \in 1..Min(Len(items1), Len(items2)) : is_a(items1[i], items2[i])

(* the mutation of is_a_Tuple that asks for a strictly longer tuple *)
is_a_Tuple_strictly_longer(items1, items2) ==
    /\ Len(items1) > Len(items2)
    /\ \A i \in 1..Min(Len(items1), Len(items2)) : is_a(items1[i], items2[i])

(* arm 7: items1.len() >= items2.len() && zip.all(is_a) *)
is_a_Tuple(items1, items2) ==
    /\ Len(items1) >= Len(items2)
    /\ \A i \in 1..Min(Len(items1), Len(items2)) : is_a(items1[i], items2[i])

(* the mutation of is_a_Array that makes the element type invariant *)
is_a_Array_invariant(t1, t2) == is_a(t1, t2) /\ is_a(t2, t1)

(* arm 8: t1.is_a(t2) *)
is_a_Array(t1, t2) == is_a(t1, t2)

(* the mutation of is_a_Function that makes the arguments covariant *)
is_a_Function_covariant(ty1, ty2) ==
    /\ Len(ty1[2]) = Len(ty2[2])
    /\ \A i \in 1..Min(Len(ty1[2]), Len(ty2[2])) : is_a(ty1[2][i], ty2[2][i])
    /\ is_a(ty1[3], ty2[3])

(* arm 9: arg1.len() == arg2.len() && arg2.zip(arg1).all(is_a) && res1.is_a(res2) *)
is_a_Function(ty1, ty2) ==
    /\ Len(ty1[2]) = Len(ty2[2])
    /\ \A i \in 1..Min(Len(ty1[2]), Len(ty2[2])) : is_a(ty2[2][i], ty1[2][i])
    /\ is_a(ty1[3], ty2[3])

(* arm 10: members2.all(|(k, v2)| members1.get(k).map_or(false, |v1| v1.is_a(v2))) *)
is_a_AnonymousStruct(members1, members2) ==
    \A j \in 1..Len(members2) :
        /\ contains_key(members1, members2[j][1])
        /\ is_a(get(members1, members2[j][1]), members2[j][2])

(* arm 11: items1.iter().all(|ty1| ty1.is_a(ty2)) *)
is_a_all(items1, ty2) == \A i \in 1..Len(items1) : is_a(items1[i], ty2)

(* the mutation of is_a_any that asks every component to be a supertype *)
is_a_any_as_all(ty1, items2) == \A j \in 1..Len(items2) : is_a(ty1, items2[j])

(* arm 12: items2.iter().any(|ty2| ty1.is_a(ty2)) *)
is_a_any(ty1, items2) == \E j \in 1..Len(items2) : is_a(ty1, items2[j])

is_a(ty1, ty2) ==
    LET arm == is_a_arm(ty1, ty2)
    IN CASE arm \in {1, 2, 3} -> TRUE
         [] arm = 4 -> FALSE
         [] arm = 5 -> ty2[2] = ty1[2]
         [] arm = 6 -> is_a_Named(ty1, ty2)
         [] arm = 7 -> is_a_Tuple(ty1[2], ty2[2])
         [] arm = 8 -> is_a_Array(ty1[2], ty2[2])
         [] arm = 9 -> is_a_Function(ty1, ty2)
         [] arm = 10 -> is_a_AnonymousStruct(ty1[2], ty2[2])
         [] arm = 11 -> is_a_all(ty1[2], ty2)
         [] arm = 12 -> is_a_any(ty1, ty2[2])
         [] arm = 13 -> FALSE

-----------------------------------------------------------------------------
(* HIRType::normalize and the Vec operations it uses *)

(* the flat_map of line 304: a component that is an Or contributes its     *)
(* items, any other component contributes itself                           *)
RECURSIVE flatten(_)
flatten(items) ==
    IF items = <<>> THEN <<>>
    ELSE (IF Kind(Head(items)) = "Or" THEN Head(items)[2] ELSE <<Head(items)>>)
         \o flatten(Tail(items))

(* Vec::sort under the derived Ord: a stable sort; insertion keeps equal   *)
(* elements in their original order                                        *)
RECURSIVE insert_sorted(_, _)
insert_sorted(sorted, ty) ==
    IF sorted = <<>> THEN <<ty>>
    ELSE IF cmp(ty, Head(sorted)) < 0 THEN <<ty>> \o sorted
    ELSE <<Head(sorted)>> \o insert_sorted(Tail(sorted), ty)

RECURSIVE insertion_sort(_)
insertion_sort(items) ==
    IF items = <<>> THEN <<>>
    ELSE insert_sorted(insertion_sort(SubSeq(items, 1, Len(items) - 1)), items[Len(items)])

(* the mutation of sort that leaves the order as it is *)
sort_omitted(items) == items

sort(items) == insertion_sort(items)

(* Vec::dedup: removes consecutive repeated elements *)
RECURSIVE dedup_consecutive(_)
dedup_consecutive(items) ==
    IF Len(items) <= 1 THEN items
    ELSE IF items[1] = items[2] THEN dedup_consecutive(Tail(items))
    ELSE <<items[1]>> \o dedup_consecutive(Tail(items))

(* the mutation of dedup that keeps the duplicates *)
dedup_omitted(items) == items

dedup(items) == dedup_consecutive(items)

(* Vec::retain(|ty| ty != &HIRType::Unreachable) *)
retain_reachable(items) == SelectSeq(items, LAMBDA ty : ty # Unreachable)

(* the mutation of normalize_Or that tests for a single component before   *)
(* it removes Unreachable                                                  *)
normalize_Or_collapse_first(children) ==
    LET deduped == dedup(sort(flatten(children)))
    IN IF Len(deduped) = 1 THEN deduped[1]
       ELSE IF Len(deduped) > 1 THEN Or(retain_reachable(deduped))
       ELSE Or(deduped)

(* lines 304-312: the Or arm of normalize after its children are normalized *)
normalize_Or(children) ==
    LET deduped == dedup(sort(flatten(children)))
        items == IF Len(deduped) > 1 THEN retain_reachable(deduped) ELSE deduped
    IN IF Len(items) = 1 THEN items[1] ELSE Or(items)

(* iter_mut().for_each(HIRType::normalize) on a Vec, values_mut() on a map *)
RECURSIVE normalize(_), normalize_each(_), normalize_values(_)
normalize_each(items) ==
    IF items = <<>> THEN <<>>
    ELSE <<normalize(Head(items))>> \o normalize_each(Tail(items))

normalize_values(members) ==
    IF members = <<>> THEN <<>>
    ELSE << <<Head(members)[1], normalize(Head(members)[2])>> >>
         \o normalize_values(Tail(members))

normalize(ty) ==
    CASE Kind(ty) = "Tuple" -> Tuple(normalize_each(ty[2]))
      [] Kind(ty) = "Array" -> Array(normalize(ty[2]))
      [] Kind(ty) = "Function" -> Function(normalize_each(ty[2]), normalize(ty[3]))
      [] Kind(ty) = "AnonymousStruct" -> AnonymousStruct(normalize_values(ty[2]))
      [] Kind(ty) = "Or" -> normalize_Or(normalize_each(ty[2]))
      [] OTHER -> ty

into_normalized(ty) == normalize(ty)

-----------------------------------------------------------------------------
(* Option<T>: None and Some(value) *)

None == <<"None">>

Some(value) == <<"Some", value>>

(* HIRType::member_type: `ty?` in the Or arm returns None at the first     *)
(* component without the member                                            *)
RECURSIVE member_type(_, _), member_type_each(_, _)
member_type_each(items, member_name) ==
    IF items = <<>> THEN <<>>
    ELSE <<member_type(Head(items), member_name)>> \o member_type_each(Tail(items), member_name)

(* the values of a Vec of Some(value) *)
RECURSIVE into_owned_each(_)
into_owned_each(options) ==
    IF options = <<>> THEN <<>>
    ELSE <<Head(options)[2]>> \o into_owned_each(Tail(options))

member_type(ty, member_name) ==
    CASE Kind(ty) = "Infer" -> Some(Infer)
      [] Kind(ty) = "AnonymousStruct" ->
            IF contains_key(ty[2], member_name) THEN Some(get(ty[2], member_name)) ELSE None
      [] Kind(ty) = "Or" ->
            LET results == member_type_each(ty[2], member_name)
            IN IF \E i \in 1..Len(results) : results[i] = None THEN None
               ELSE Some(Or(into_owned_each(results)))
      [] OTHER -> None

(* HIRType::tuple_item_type: n is a 0-based index, Vec::get(n) *)
RECURSIVE tuple_item_type(_, _), tuple_item_type_each(_, _)
tuple_item_type_each(items, n) ==
    IF items = <<>> THEN <<>>
    ELSE <<tuple_item_type(Head(items), n)>> \o tuple_item_type_each(Tail(items), n)

tuple_item_type(ty, n) ==
    CASE Kind(ty) = "Infer" -> Some(Infer)
      [] Kind(ty) = "Tuple" -> IF n < Len(ty[2]) THEN Some(ty[2][n + 1]) ELSE None
      [] Kind(ty) = "Or" ->
            LET results == tuple_item_type_each(ty[2], n)
            IN IF \E i \in 1..Len(results) : results[i] = None THEN None
               ELSE Some(Or(into_owned_each(results)))
      [] OTHER -> None

(* HIRType::has_member *)
RECURSIVE has_member(_, _)

(* the mutation of has_member_all that asks for one component only *)
has_member_any(items, member_name) ==
    \E i \in 1..Len(items) : has_member(items[i], member_name)

(* line 357: items.iter().all(|ty| ty.has_member(member_name)) *)
has_member_all(items, member_name) ==
    \A i \in 1..Len(items) : has_member(items[i], member_name)

has_member(ty, member_name) ==
    CASE Kind(ty) = "Infer" -> TRUE
      [] Kind(ty) = "AnonymousStruct" -> contains_key(ty[2], member_name)
      [] Kind(ty) = "Or" -> has_member_all(ty[2], member_name)
      [] OTHER -> FALSE

(* HIRType::has_tuple_item *)
RECURSIVE has_tuple_item(_, _)
has_tuple_item(ty, n) ==
    CASE Kind(ty) = "Infer" -> TRUE
      [] Kind(ty) = "Tuple" -> n < Len(ty[2])
      [] Kind(ty) = "Or" -> \A i \in 1..Len(ty[2]) : has_tuple_item(ty[2][i], n)
      [] OTHER -> FALSE

-----------------------------------------------------------------------------
(* HIRType::apply_generics_type_argument: `?` returns None from the whole  *)
(* call at the first nested call that returns None                         *)

(* the mutation of type_arguments_get that reads the index as 1-based *)
type_arguments_get_one_based(type_arguments, i) ==
    IF 1 <= i /\ i <= Len(type_arguments) THEN Some(type_arguments[i]) ELSE None

(* type_arguments.get(i): a 0-based index into the slice *)
type_arguments_get(type_arguments, i) ==
    IF i < Len(type_arguments) THEN Some(type_arguments[i + 1]) ELSE None

RECURSIVE apply_generics_type_argument(_, _), apply_each(_, _), apply_values(_, _)

(* the Option of every nested call on the items of a Vec *)
apply_each(items, type_arguments) ==
    IF items = <<>> THEN <<>>
    ELSE <<apply_generics_type_argument(Head(items), type_arguments)>>
         \o apply_each(Tail(items), type_arguments)

(* the Option of every nested call on the values of a map *)
apply_values(members, type_arguments) ==
    IF members = <<>> THEN <<>>
    ELSE <<apply_generics_type_argument(Head(members)[2], type_arguments)>>
         \o apply_values(Tail(members), type_arguments)

(* Some(value), unless one of the nested calls returned None *)
unless_None(options, value) ==
    IF \E i \in 1..Len(options) : options[i] = None THEN None ELSE Some(value)

(* the map with the same keys and the given values *)
RECURSIVE with_values(_, _)
with_values(members, values) ==
    IF members = <<>> THEN <<>>
    ELSE << <<Head(members)[1], Head(values)>> >> \o with_values(Tail(members), Tail(values))

apply_generics_type_argument(ty, type_arguments) ==
    CASE Kind(ty) = "Infer" -> Some(Infer)
      [] Kind(ty) = "Unreachable" -> Some(Unreachable)
      [] Kind(ty) = "GenericsTypeArgument" -> type_arguments_get(type_arguments, ty[2])
      [] Kind(ty) = "Named" ->
            LET types == apply_each(ty[3], type_arguments)
            IN unless_None(types, Named(ty[2], into_owned_each(types)))
      [] Kind(ty) = "Tuple" ->
            LET types == apply_each(ty[2], type_arguments)
            IN unless_None(types, Tuple(into_owned_each(types)))
      [] Kind(ty) = "Array" ->
            LET item == apply_generics_type_argument(ty[2], type_arguments)
            IN unless_None(<<item>>, Array(item[2]))
      [] Kind(ty) = "Function" ->
            LET types == apply_each(ty[2], type_arguments)
                res == apply_generics_type_argument(ty[3], type_arguments)
            IN unless_None(types \o <<res>>, Function(into_owned_each(types), res[2]))
      [] Kind(ty) = "AnonymousStruct" ->
            LET types == apply_values(ty[2], type_arguments)
            IN unless_None(types, AnonymousStruct(with_values(ty[2], into_owned_each(types))))
      [] Kind(ty) = "Or" ->
            LET types == apply_each(ty[2], type_arguments)
            IN unless_None(types, Or(into_owned_each(types)))

-----------------------------------------------------------------------------
(* HIRType::intersect_to.  Panic is the outcome of Option::unwrap on None  *)
(* (line 430); a panic in a nested call aborts the whole call.             *)

Panic == <<"panic">>

(* members2.get(key).unwrap() *)
get_unwrap(members, key) == IF contains_key(members, key) THEN get(members, key) ELSE Panic

(* the value, unless one of the nested calls panicked *)
unless_panic(nested, value) ==
    IF \E i \in 1..Len(nested) : nested[i] = Panic THEN Panic ELSE value

RECURSIVE concat(_)
concat(rows) == IF rows = <<>> THEN <<>> ELSE Head(rows) \o concat(Tail(rows))

(* the i-th entries of the rows that have one: what the folds of lines     *)
(* 409-412 and 433-438 push into the i-th accumulator                      *)
RECURSIVE column(_, _)
column(rows, i) ==
    IF rows = <<>> THEN <<>>
    ELSE (IF i <= Len(Head(rows)) THEN <<Head(rows)[i]>> ELSE <<>>) \o column(Tail(rows), i)

(* the guards of the three filter_map closures *)

(* the mutation of Tuple_candidate that accepts every Tuple *)
Tuple_candidate_any(ty, ty1) == Kind(ty) = "Tuple"

Tuple_candidate(ty, ty1) == Kind(ty) = "Tuple" /\ is_a(ty, ty1)

(* the mutation of Array_candidate that tests t1.is_a(ty) *)
Array_candidate_reversed(ty, t1) == Kind(ty) = "Array" /\ is_a(t1, ty[2])

Array_candidate(ty, t1) == Kind(ty) = "Array" /\ is_a(ty[2], t1)

(* the mutation of AnonymousStruct_candidate that tests ty1.is_a(ty) *)
AnonymousStruct_candidate_reversed(ty, ty1) == Kind(ty) = "AnonymousStruct" /\ is_a(ty1, ty)

AnonymousStruct_candidate(ty, ty1) == Kind(ty) = "AnonymousStruct" /\ is_a(ty, ty1)

RECURSIVE intersect_to(_, _), intersect_zip(_, _), intersect_members(_, _, _, _),
          intersect_each(_, _), Tuple_rows(_, _), Array_items(_, _),
          AnonymousStruct_row(_, _), AnonymousStruct_rows(_, _)

(* items1.iter().zip(items2).map(|(ty1, ty2)| ty1.intersect_to(ty2)) *)
intersect_zip(items1, items2) ==
    IF items1 = <<>> \/ items2 = <<>> THEN <<>>
    ELSE <<intersect_to(Head(items1), Head(items2))>> \o intersect_zip(Tail(items1), Tail(items2))

(* lines 385-393: the loop over members1, result_members being the map     *)
(* built so far; a key missing from members2 returns ty1                   *)
intersect_members(members1, members2, ty1, result_members) ==
    IF members1 = <<>> THEN AnonymousStruct(result_members)
    ELSE LET key == Head(members1)[1]
         IN IF contains_key(members2, key)
            THEN LET value == intersect_to(Head(members1)[2], get(members2, key))
                 IN IF value = Panic THEN Panic
                    ELSE intersect_members(Tail(members1), members2, ty1,
                                           result_members \o << <<key, value>> >>)
            ELSE ty1

(* lines 396-399 *)
intersect_each(items1, ty2) ==
    IF items1 = <<>> THEN <<>>
    ELSE <<intersect_to(Head(items1), ty2)>> \o intersect_each(Tail(items1), ty2)

(* lines 405-408: one row per Tuple candidate that is_a self *)
Tuple_rows(ty1, types) ==
    IF types = <<>> THEN <<>>
    ELSE (IF Tuple_candidate(Head(types), ty1)
          THEN <<intersect_zip(ty1[2], Head(types)[2])>> ELSE <<>>)
         \o Tuple_rows(ty1, Tail(types))

(* lines 419-422: one item per Array candidate whose element is_a t1 *)
Array_items(t1, types) ==
    IF types = <<>> THEN <<>>
    ELSE (IF Array_candidate(Head(types), t1)
          THEN <<intersect_to(t1, Head(types)[2])>> ELSE <<>>)
         \o Array_items(t1, Tail(types))

(* line 430: the values of the map collected from members1, in key order *)
AnonymousStruct_row(members1, members2) ==
    IF members1 = <<>> THEN <<>>
    ELSE LET ty2 == get_unwrap(members2, Head(members1)[1])
         IN <<IF ty2 = Panic THEN Panic ELSE intersect_to(Head(members1)[2], ty2)>>
            \o AnonymousStruct_row(Tail(members1), members2)

AnonymousStruct_rows(ty1, types) ==
    IF types = <<>> THEN <<>>
    ELSE (IF AnonymousStruct_candidate(Head(types), ty1)
          THEN <<AnonymousStruct_row(ty1[2], Head(types)[2])>> ELSE <<>>)
         \o AnonymousStruct_rows(ty1, Tail(types))

(* lines 409-414: vec![Vec::new(); items1.len()] filled column by column   *)
RECURSIVE Tuple_of_columns(_, _, _)
Tuple_of_columns(rows, i, len) ==
    IF i > len THEN <<>>
    ELSE <<Or(column(rows, i))>> \o Tuple_of_columns(rows, i + 1, len)

(* lines 433-439: the accumulated map has an entry for a key of members1   *)
(* as soon as one row exists, and none otherwise                           *)
RECURSIVE members_of_columns(_, _, _)
members_of_columns(members1, rows, i) ==
    IF rows = <<>> \/ i > Len(members1) THEN <<>>
    ELSE << <<members1[i][1], into_normalized(Or(column(rows, i)))>> >>
         \o members_of_columns(members1, rows, i + 1)

(* the number (1..11, in source order) of the first arm of the match in    *)
(* intersect_to whose pattern and guard match (self, rhs)                  *)
intersect_to_arm(ty1, ty2) ==
    IF ty1 = ty2 THEN 1
    ELSE IF Kind(ty1) = "Infer" THEN 2
    ELSE IF Kind(ty2) = "Infer" THEN 3
    ELSE IF Kind(ty1) = "Tuple" /\ Kind(ty2) = "Tuple" /\ Len(ty1[2]) <= Len(ty2[2]) THEN 4
    ELSE IF Kind(ty1) = "Array" /\ Kind(ty2) = "Array" THEN 5
    ELSE IF Kind(ty1) = "AnonymousStruct" /\ Kind(ty2) = "AnonymousStruct" THEN 6
    ELSE IF Kind(ty1) = "Or" THEN 7
    ELSE IF Kind(ty1) = "Tuple" /\ Kind(ty2) = "Or" THEN 8
    ELSE IF Kind(ty1) = "Array" /\ Kind(ty2) = "Or" THEN 9
    ELSE IF Kind(ty1) = "AnonymousStruct" /\ Kind(ty2) = "Or" THEN 10
    ELSE 11

intersect_to(ty1, ty2) ==
    LET arm == intersect_to_arm(ty1, ty2)
    IN CASE arm = 1 -> ty1
         [] arm = 2 -> ty2
         [] arm = 3 -> ty1
         [] arm = 4 ->
              LET types == intersect_zip(ty1[2], ty2[2])
              IN unless_panic(types, Tuple(types))
         [] arm = 5 ->
              LET item == intersect_to(ty1[2], ty2[2])
              IN unless_panic(<<item>>, Array(item))
         [] arm = 6 -> intersect_members(ty1[2], ty2[2], ty1, <<>>)
         [] arm = 7 ->
              LET types == intersect_each(ty1[2], ty2)
              IN unless_panic(types, Or(types))
         [] arm = 8 ->
              LET rows == Tuple_rows(ty1, ty2[2])
              IN unless_panic(concat(rows), Tuple(Tuple_of_columns(rows, 1, Len(ty1[2]))))
         [] arm = 9 ->
              LET types == Array_items(ty1[2], ty2[2])
              IN unless_panic(types, Array(into_normalized(Or(types))))
         [] arm = 10 ->
              LET rows == AnonymousStruct_rows(ty1, ty2[2])
              IN unless_panic(concat(rows), AnonymousStruct(members_of_columns(ty1[2], rows, 1)))
         [] arm = 11 -> ty1

-----------------------------------------------------------------------------
(* HIRType::possibility_assignable_to *)

possibility_assignable_to_arm(ty1, ty2) ==
    IF ty1 = ty2 THEN 1
    ELSE IF Kind(ty1) = "Infer" \/ Kind(ty2) = "Infer" THEN 2
    ELSE IF Kind(ty1) = "GenericsTypeArgument" \/ Kind(ty2) = "GenericsTypeArgument" THEN 3
    ELSE IF Kind(ty1) = "Tuple" /\ Kind(ty2) = "Tuple" THEN 4
    ELSE IF Kind(ty1) = "Array" /\ Kind(ty2) = "Array" THEN 5
    ELSE IF Kind(ty1) = "AnonymousStruct" /\ Kind(ty2) = "AnonymousStruct" THEN 6
    ELSE IF Kind(ty1) = "Or" THEN 7
    ELSE IF Kind(ty2) = "Or" THEN 8
    ELSE 9

RECURSIVE possibility_assignable_to(_, _)

(* the mutation of possibility_Tuple that asks for equal lengths *)
possibility_Tuple_same_length(items1, items2) ==
    /\ Len(items1) = Len(items2)
    /\ \A i \in 1..Min(Len(items1), Len(items2)) : possibility_assignable_to(items1[i], items2[i])

(* arm 4: items1.iter().zip(items2).all(..) *)
possibility_Tuple(items1, items2) ==
    \A i \in 1..Min(Len(items1), Len(items2)) : possibility_assignable_to(items1[i], items2[i])

(* arm 6: !members2.iter().any(|(key, ty2)| members1.get(key)              *)
(*            .map(|ty1| !ty1.possibility_assignable_to(ty2)).unwrap_or_default()) *)
possibility_AnonymousStruct(members1, members2) ==
    ~\E j \in 1..Len(members2) :
        /\ contains_key(members1, members2[j][1])
        /\ ~possibility_assignable_to(get(members1, members2[j][1]), members2[j][2])

possibility_assignable_to(ty1, ty2) ==
    LET arm == possibility_assignable_to_arm(ty1, ty2)
    IN CASE arm \in {1, 2, 3} -> TRUE
         [] arm = 4 -> possibility_Tuple(ty1[2], ty2[2])
         [] arm = 5 -> possibility_assignable_to(ty1[2], ty2[2])
         [] arm = 6 -> possibility_AnonymousStruct(ty1[2], ty2[2])
         [] arm = 7 -> \E i \in 1..Len(ty1[2]) : possibility_assignable_to(ty1[2][i], ty2)
         [] arm = 8 -> \E j \in 1..Len(ty2[2]) : possibility_assignable_to(ty1, ty2[2][j])
         [] arm = 9 -> FALSE

-----------------------------------------------------------------------------
(* impl TryFrom<Type> for HIRType and impl TryFrom<&Pattern> for HIRType.  *)
(* The surface values of kirl_parser are tagged tuples; the members of a   *)
(* surface struct are a Vec of <<name, value>> in the order written, which *)
(* can repeat a name.                                                      *)

Type_None == <<"Type::None">>

Type_Unreachable == <<"Type::Unreachable">>

Type_NamedType(path, generics_arguments) == <<"Type::NamedType", path, generics_arguments>>

Type_Tuple(items) == <<"Type::Tuple", items>>

Type_Array(item) == <<"Type::Array", item>>

Type_Function(argument, res) == <<"Type::Function", argument, res>>

Type_AnonymousStruct(members) == <<"Type::AnonymousStruct", members>>

Type_Or(items) == <<"Type::Or", items>>

Pattern_Variable == <<"Pattern::Variable">>

Pattern_Tuple(items) == <<"Pattern::Tuple", items>>

StructName_Named(path, generics_arguments) == <<"StructName::Named", path, generics_arguments>>

StructName_Anonymous == <<"StructName::Anonymous">>

Pattern_Struct(name, members) == <<"Pattern::Struct", name, members>>

(* Result<HIRType, HIRTypeConvertError> *)
Ok(value) == <<"Ok", value>>

Err(error) == <<"Err", error>>

DuplicatedMember(name) == <<"DuplicatedMember", name>>

(* BTreeMap::insert of a key that the map does not hold yet *)
RECURSIVE insert(_, _, _)
insert(members, key, value) ==
    IF members = <<>> THEN << <<key, value>> >>
    ELSE IF cmp_String(key, Head(members)[1]) < 0 THEN << <<key, value>> >> \o members
    ELSE <<Head(members)>> \o insert(Tail(members), key, value)

(* the first Err among the results, if there is one: what `?` returns *)
RECURSIVE first_Err(_)
first_Err(results) ==
    IF results = <<>> THEN None
    ELSE IF Head(results)[1] = "Err" THEN Some(Head(results)) ELSE first_Err(Tail(results))

(* Ok(value), unless one of the nested conversions failed *)
unless_Err(results, value) ==
    LET failed == first_Err(results)
    IN IF failed = None THEN Ok(value) ELSE failed[2]

RECURSIVE try_from_Type(_), try_map_collect_Type(_), try_from_Type_members(_, _)

(* items.into_iter().try_map_collect(TryInto::try_into): the results up to *)
(* and including the first Err                                             *)
try_map_collect_Type(items) ==
    IF items = <<>> THEN <<>>
    ELSE LET converted == try_from_Type(Head(items))
         IN IF converted[1] = "Err" THEN <<converted>>
            ELSE <<converted>> \o try_map_collect_Type(Tail(items))

(* lines 181-187: the loop over the members, result_members being the map  *)
(* built so far                                                            *)
try_from_Type_members(members, result_members) ==
    IF members = <<>> THEN Ok(AnonymousStruct(result_members))
    ELSE LET member == Head(members)[1]
         IN IF contains_key(result_members, member) THEN Err(DuplicatedMember(member))
            ELSE LET converted == try_from_Type(Head(members)[2])
                 IN IF converted[1] = "Err" THEN converted
                    ELSE try_from_Type_members(Tail(members),
                                               insert(result_members, member, converted[2]))

try_from_Type(ty) ==
    CASE ty[1] = "Type::None" -> Ok(Tuple(<<>>))
      [] ty[1] = "Type::Unreachable" -> Ok(Unreachable)
      [] ty[1] = "Type::NamedType" ->
            LET converted == try_map_collect_Type(ty[3])
            IN unless_Err(converted, Named(ty[2], into_owned_each(converted)))
      [] ty[1] = "Type::Tuple" ->
            LET converted == try_map_collect_Type(ty[2])
            IN unless_Err(converted, Tuple(into_owned_each(converted)))
      [] ty[1] = "Type::Array" ->
            LET converted == try_from_Type(ty[2])
            IN unless_Err(<<converted>>, Array(converted[2]))
      [] ty[1] = "Type::Function" ->
            LET arguments == try_map_collect_Type(ty[2])
            IN IF first_Err(arguments) # None THEN first_Err(arguments)[2]
               ELSE LET res == try_from_Type(ty[3])
                    IN unless_Err(<<res>>, Function(into_owned_each(arguments), res[2]))
      [] ty[1] = "Type::AnonymousStruct" -> try_from_Type_members(ty[2], <<>>)
      [] ty[1] = "Type::Or" ->
            LET converted == try_map_collect_Type(ty[2])
            IN unless_Err(converted, Or(into_owned_each(converted)))

RECURSIVE try_from_Pattern(_), try_from_Pattern_items(_), try_from_Pattern_members(_, _)

(* lines 200-203 *)
try_from_Pattern_items(items) ==
    IF items = <<>> THEN <<>>
    ELSE LET converted == try_from_Pattern(Head(items))
         IN IF converted[1] = "Err" THEN <<converted>>
            ELSE <<converted>> \o try_from_Pattern_items(Tail(items))

(* lines 212-217 *)
try_from_Pattern_members(members, result_members) ==
    IF members = <<>> THEN Ok(AnonymousStruct(result_members))
    ELSE LET name == Head(members)[1]
         IN IF contains_key(result_members, name) THEN Err(DuplicatedMember(name))
            ELSE LET converted == try_from_Pattern(Head(members)[2])
                 IN IF converted[1] = "Err" THEN converted
                    ELSE try_from_Pattern_members(Tail(members),
                                                  insert(result_members, name, converted[2]))

(* lines 206-209: the members of a named-struct pattern are not looked at *)
try_from_Pattern_Named(name, members) ==
    LET converted == try_map_collect_Type(name[3])
    IN unless_Err(converted, Named(name[2], into_owned_each(converted)))

try_from_Pattern(value) ==
    CASE value[1] = "Pattern::Variable" -> Ok(Infer)
      [] value[1] = "Pattern::Tuple" ->
            LET converted == try_from_Pattern_items(value[2])
            IN unless_Err(converted, Tuple(into_owned_each(converted)))
      [] value[1] = "Pattern::Struct" /\ value[2][1] = "StructName::Named" ->
            try_from_Pattern_Named(value[2], value[3])
      [] value[1] = "Pattern::Struct" /\ value[2][1] = "StructName::Anonymous" ->
            try_from_Pattern_members(value[3], <<>>)

-----------------------------------------------------------------------------
(* collect_top_level_item_with_imports.  A KirlTopLevelStatement is        *)
(* <<variant, item>>; the item of a Statement is <<id, statement>> with    *)
(* statement = <<"Import", path>> or <<"Expression">>, the item of a       *)
(* definition is <<id>>; id is the position of the item in the source.     *)

Statement(id, statement) == <<"Statement", <<id, statement>>>>

FunctionDefinition(id) == <<"FunctionDefinition", <<id>>>>

StructDefinition(id) == <<"StructDefinition", <<id>>>>

Import(path) == <<"Import", path>>

Expression == <<"Expression">>

(* the mutation of WithImport that records no import *)
WithImport_without_imports(import, item) == [import |-> <<>>, item |-> item]

(* WithImport { import: ImportPath::List(imports.clone()), item } *)
WithImport(import, item) == [import |-> import, item |-> item]

(* the mutation of push that inserts at the front *)
push_front(vec, item) == <<item>> \o vec

(* Vec::push *)
push(vec, item) == Append(vec, item)

(* lines 44-46: if let StatementItem::Import(import) = &normal_statement.statement *)
push_if_Import(vec, normal_statement) ==
    IF normal_statement[2][1] = "Import" THEN push(vec, normal_statement[2][2]) ELSE vec

KirlTopLevelItems(sts, strs, fns) == [statements |-> sts, structs |-> strs, functions |-> fns]

-----------------------------------------------------------------------------
(* The inputs: every HIRType value with at most a given number of nodes    *)
(* over two generic parameters, one path and two member names.             *)

MaxSize == 4

MaxPairSize == 4

MaxCalls == 2

GenericsIndices == {0, 1}

Paths == {<<"Number">>}

MemberNames == <<"a", "b">>

(* VecsOfSize(n, T): the sequences whose elements have n nodes in total,   *)
(* T[k] being the set of types of k nodes                                  *)
RECURSIVE VecsOfSize(_, _)
VecsOfSize(n, T) ==
    IF n = 0 THEN {<<>>}
    ELSE UNION {{<<t>> \o s : t \in T[k], s \in VecsOfSize(n - k, T)} : k \in 1..n}

(* the entry sequences of the maps over a suffix of MemberNames whose      *)
(* values have n nodes in total                                            *)
RECURSIVE MembersOfSize(_, _, _)
MembersOfSize(names, n, T) ==
    IF names = <<>> THEN (IF n = 0 THEN {<<>>} ELSE {})
    ELSE MembersOfSize(Tail(names), n, T)
         \cup UNION {{<< <<Head(names), t>> >> \o m :
                        t \in T[k], m \in MembersOfSize(Tail(names), n - k, T)} : k \in 1..n}

Variants ==
    {"Infer", "Unreachable", "GenericsTypeArgument", "Named", "Tuple", "Array",
     "Function", "AnonymousStruct", "Or"}

(* the values of one variant that have exactly n nodes *)
TypesOfVariant(variant, n, T) ==
    CASE variant = "Infer" -> IF n = 1 THEN {Infer} ELSE {}
      [] variant = "Unreachable" -> IF n = 1 THEN {Unreachable} ELSE {}
      [] variant = "GenericsTypeArgument" ->
            IF n = 1 THEN {GenericsTypeArgument(i) : i \in GenericsIndices} ELSE {}
      [] variant = "Named" -> {Named(p, s) : p \in Paths, s \in VecsOfSize(n - 1, T)}
      [] variant = "Tuple" -> {Tuple(s) : s \in VecsOfSize(n - 1, T)}
      [] variant = "Array" -> IF n > 1 THEN {Array(t) : t \in T[n - 1]} ELSE {}
      [] variant = "Function" ->
            UNION {{Function(s, r) : s \in VecsOfSize(n - 1 - k, T), r \in T[k]} : k \in 1..(n - 1)}
      [] variant = "AnonymousStruct" ->
            {AnonymousStruct(m) : m \in MembersOfSize(MemberNames, n - 1, T)}
      [] variant = "Or" -> {Or(s) : s \in VecsOfSize(n - 1, T)}

TypesOfSize(n, T) == UNION {TypesOfVariant(v, n, T) : v \in Variants}

Types1 == TypesOfSize(1, <<>>)

Types2 == TypesOfSize(2, <<Types1>>)

Types3 == TypesOfSize(3, <<Types1, Types2>>)

Types4 == TypesOfSize(4, <<Types1, Types2, Types3>>)

TypeTable == <<Types1, Types2, Types3, Types4>>

(* A second, deeper universe: the composite values built over three leaf   *)
(* values only, again tabulated by number of nodes.                        *)
Leaves == {Infer, Unreachable, Tuple(<<>>)}

Deep1 == Leaves

Deep2 == TypesOfSize(2, <<Deep1>>)

Deep3 == TypesOfSize(3, <<Deep1, Deep2>>)

Deep4 == TypesOfSize(4, <<Deep1, Deep2, Deep3>>)

Deep5 == TypesOfSize(5, <<Deep1, Deep2, Deep3, Deep4>>)

DeepTable == <<Deep1, Deep2, Deep3, Deep4, Deep5>>

(* pairs of composite values of the same variant with at most this many    *)
(* nodes together                                                          *)
MaxKindPairSize == 6

(* pairs of a Tuple, Array or AnonymousStruct value and a union with at    *)
(* most this many nodes together                                           *)
MaxUnionPairSize == 7

(* the member names and the 0-based tuple indices the projections ask for  *)
MaxIndex == 1

(* the receivers of apply_generics_type_argument have at most this many    *)
(* nodes, and the slice of type arguments at most this many items          *)
MaxApplySize == 3

MaxTypeArguments == 2

(* the items of a slice of type arguments: two of them are generic         *)
(* parameters themselves                                                   *)
ArgumentTypes == {GenericsTypeArgument(0), GenericsTypeArgument(1), Tuple(<<>>)}

RECURSIVE SlicesOfLen(_)
SlicesOfLen(n) ==
    IF n = 0 THEN {<<>>}
    ELSE {<<t>> \o s : t \in ArgumentTypes, s \in SlicesOfLen(n - 1)}

(* the surface types and patterns have at most this many nodes; their     *)
(* leaves are Type::None, Type::Unreachable and Pattern::Variable          *)
MaxSurfaceSize == 5

(* the member lists over MemberNames, names repeated or not, whose values  *)
(* have n nodes in total, T[k] being the set of values of k nodes          *)
RECURSIVE MemberListsOfSize(_, _)
MemberListsOfSize(n, T) ==
    IF n = 0 THEN {<<>>}
    ELSE UNION {{<< <<MemberNames[i], t>> >> \o m :
                    i \in 1..Len(MemberNames), t \in T[k], m \in MemberListsOfSize(n - k, T)} :
                k \in 1..n}

SurfaceVariants ==
    {"Type::NamedType", "Type::Tuple", "Type::Array", "Type::Function",
     "Type::AnonymousStruct", "Type::Or"}

(* the composite surface types of one variant that have exactly n nodes *)
SurfaceTypesOfVariant(variant, n, T) ==
    CASE variant = "Type::NamedType" ->
            {Type_NamedType(p, s) : p \in Paths, s \in VecsOfSize(n - 1, T)}
      [] variant = "Type::Tuple" -> {Type_Tuple(s) : s \in VecsOfSize(n - 1, T)}
      [] variant = "Type::Array" -> IF n > 1 THEN {Type_Array(t) : t \in T[n - 1]} ELSE {}
      [] variant = "Type::Function" ->
            UNION {{Type_Function(s, r) : s \in VecsOfSize(n - 1 - k, T), r \in T[k]} :
                   k \in 1..(n - 1)}
      [] variant = "Type::AnonymousStruct" ->
            {Type_AnonymousStruct(m) : m \in MemberListsOfSize(n - 1, T)}
      [] variant = "Type::Or" -> {Type_Or(s) : s \in VecsOfSize(n - 1, T)}

SurfaceTypesOfSize(n, T) == UNION {SurfaceTypesOfVariant(v, n, T) : v \in SurfaceVariants}

Surface1 == {Type_None, Type_Unreachable}

Surface2 == SurfaceTypesOfSize(2, <<Surface1>>)

Surface3 == SurfaceTypesOfSize(3, <<Surface1, Surface2>>)

Surface4 == SurfaceTypesOfSize(4, <<Surface1, Surface2, Surface3>>)

Surface5 == SurfaceTypesOfSize(5, <<Surface1, Surface2, Surface3, Surface4>>)

SurfaceTable == <<Surface1, Surface2, Surface3, Surface4, Surface5>>

PatternVariants == {"Pattern::Tuple", "StructName::Named", "StructName::Anonymous"}

(* the composite patterns of one variant that have exactly n nodes, T[k]   *)
(* being the set of patterns of k nodes                                    *)
PatternsOfVariant(variant, n, T) ==
    CASE variant = "Pattern::Tuple" -> {Pattern_Tuple(s) : s \in VecsOfSize(n - 1, T)}
      [] variant = "StructName::Anonymous" ->
            {Pattern_Struct(StructName_Anonymous, m) : m \in MemberListsOfSize(n - 1, T)}
      [] variant = "StructName::Named" ->
            UNION {{Pattern_Struct(StructName_Named(p, g), m) :
                       p \in Paths, g \in VecsOfSize(k, SurfaceTable),
                       m \in MemberListsOfSize(n - 1 - k, T)} : k \in 0..(n - 1)}

PatternsOfSize(n, T) == UNION {PatternsOfVariant(v, n, T) : v \in PatternVariants}

Patterns1 == {Pattern_Variable}

Patterns2 == PatternsOfSize(2, <<Patterns1>>)

Patterns3 == PatternsOfSize(3, <<Patterns1, Patterns2>>)

Patterns4 == PatternsOfSize(4, <<Patterns1, Patterns2, Patterns3>>)

Patterns5 == PatternsOfSize(5, <<Patterns1, Patterns2, Patterns3, Patterns4>>)

PatternTable == <<Patterns1, Patterns2, Patterns3, Patterns4, Patterns5>>

(* the top-level sequences have at most this many items *)
MaxItems == 5

ImportPaths == {"std", "io"}

(* what an item of a top-level sequence can be, apart from its position *)
ItemShapes ==
    {<<"Statement", Expression>>, <<"FunctionDefinition">>, <<"StructDefinition">>}
    \cup {<<"Statement", Import(path)>> : path \in ImportPaths}

item_at(id, shape) ==
    CASE shape[1] = "Statement" -> Statement(id, shape[2])
      [] shape[1] = "FunctionDefinition" -> FunctionDefinition(id)
      [] shape[1] = "StructDefinition" -> StructDefinition(id)

(* the top-level sequences of n items *)
RECURSIVE TopLevelSequences(_)
TopLevelSequences(n) ==
    IF n = 0 THEN {<<>>}
    ELSE {Append(s, item_at(n, shape)) : s \in TopLevelSequences(n - 1), shape \in ItemShapes}

(* the two paths of tests::test_type_is_a *)
NamedPaths == {<<"Number">>, <<"String">>}

-----------------------------------------------------------------------------
(* While a type operation runs, no splitting is in progress *)
NoSplit ==
    /\ top_level_statements = <<>>
    /\ cursor = 0
    /\ statements = <<>>
    /\ structs = <<>>
    /\ functions = <<>>
    /\ imports = <<>>

-----------------------------------------------------------------------------
(* Operations on a pair of types *)

InitPair ==
    /\ \E k \in 1..(MaxPairSize - 1) : \E j \in 1..(MaxPairSize - k) :
          \E v \in Variants : \E w \in Variants :
             \E p \in TypesOfVariant(v, k, TypeTable) \X TypesOfVariant(w, j, TypeTable) :
                self = p[1] /\ rhs = p[2]
    /\ before = self
    /\ op = "init"
    /\ result = "none"
    /\ calls = 0
    /\ NoSplit

(* let result = self.is_a(&rhs) *)
IsA ==
    /\ op = "init"
    /\ result' = is_a(self, rhs)
    /\ op' = "is_a"
    /\ UNCHANGED <<self, rhs, before, calls>>
    /\ UNCHANGED split_vars

NextPair == IsA

SpecPair == InitPair /\ [][NextPair]_vars

-----------------------------------------------------------------------------
(* Operations on a pair of types that reach below the first level: the     *)
(* pairs of InitPair, the pairs of composite values of one variant over    *)
(* the leaves, and the pairs of Named values over both paths.              *)

InitKindPair ==
    /\ \/ \E k \in 1..(MaxPairSize - 1) : \E j \in 1..(MaxPairSize - k) :
             \E v \in Variants : \E w \in Variants :
                \E p \in TypesOfVariant(v, k, TypeTable) \X TypesOfVariant(w, j, TypeTable) :
                   self = p[1] /\ rhs = p[2]
       \/ \E k \in 2..(MaxKindPairSize - 2) : \E j \in 2..(MaxKindPairSize - k) :
             \E v \in Variants :
                \E p \in TypesOfVariant(v, k, DeepTable) \X TypesOfVariant(v, j, DeepTable) :
                   self = p[1] /\ rhs = p[2]
       \/ \E p \in NamedPaths : \E q \in NamedPaths :
             \E s \in VecsOfSize(0, DeepTable) \cup VecsOfSize(1, DeepTable) :
                \E t \in VecsOfSize(0, DeepTable) \cup VecsOfSize(1, DeepTable) :
                   self = Named(p, s) /\ rhs = Named(q, t)
    /\ before = self
    /\ op = "init"
    /\ result = "none"
    /\ calls = 0
    /\ NoSplit

-----------------------------------------------------------------------------
(* intersect_to and the predicates on the pairs of InitPair and on the     *)
(* pairs of a Tuple, Array or AnonymousStruct receiver and a union target  *)
(* over the leaves.                                                        *)

InitUnionPair ==
    /\ \/ \E k \in 1..(MaxPairSize - 1) : \E j \in 1..(MaxPairSize - k) :
             \E v \in Variants : \E w \in Variants :
                \E p \in TypesOfVariant(v, k, TypeTable) \X TypesOfVariant(w, j, TypeTable) :
                   self = p[1] /\ rhs = p[2]
       \/ \E k \in 2..(MaxUnionPairSize - 3) : \E j \in 3..(MaxUnionPairSize - k) :
             \E v \in {"Tuple", "Array", "AnonymousStruct"} :
                \E p \in TypesOfVariant(v, k, DeepTable) \X TypesOfVariant("Or", j, DeepTable) :
                   self = p[1] /\ rhs = p[2]
    /\ before = self
    /\ op = "init"
    /\ result = "none"
    /\ calls = 0
    /\ NoSplit

(* let result = self.intersect_to(&rhs) *)
IntersectTo ==
    /\ op = "init"
    /\ result' = intersect_to(self, rhs)
    /\ op' = "intersect_to"
    /\ UNCHANGED <<self, rhs, before, calls>>
    /\ UNCHANGED split_vars

(* let result = self.possibility_assignable_to(&rhs) *)
PossibilityAssignableTo ==
    /\ op = "init"
    /\ result' = possibility_assignable_to(self, rhs)
    /\ op' = "possibility_assignable_to"
    /\ UNCHANGED <<self, rhs, before, calls>>
    /\ UNCHANGED split_vars

(* let result = self.has_member(member_name) *)
HasMember ==
    /\ op = "init"
    /\ \E i \in 1..Len(MemberNames) : result' = has_member(self, MemberNames[i])
    /\ op' = "has_member"
    /\ UNCHANGED <<self, rhs, before, calls>>
    /\ UNCHANGED split_vars

(* let result = self.has_tuple_item(n) *)
HasTupleItem ==
    /\ op = "init"
    /\ \E n \in 0..MaxIndex : result' = has_tuple_item(self, n)
    /\ op' = "has_tuple_item"
    /\ UNCHANGED <<self, rhs, before, calls>>
    /\ UNCHANGED split_vars

NextKindPair == IsA \/ PossibilityAssignableTo

SpecKindPair == InitKindPair /\ [][NextKindPair]_vars

NextUnionPair == IntersectTo

SpecUnionPair == InitUnionPair /\ [][NextUnionPair]_vars

(* every operation that takes a type, on the pairs of InitPair and on the  *)
(* pairs of an AnonymousStruct receiver and a union target over the leaves *)
InitTotal ==
    /\ \/ \E k \in 1..(MaxPairSize - 1) : \E j \in 1..(MaxPairSize - k) :
             \E v \in Variants : \E w \in Variants :
                \E p \in TypesOfVariant(v, k, TypeTable) \X TypesOfVariant(w, j, TypeTable) :
                   self = p[1] /\ rhs = p[2]
       \/ \E k \in 2..(MaxUnionPairSize - 3) : \E j \in 3..(MaxUnionPairSize - k) :
             \E p \in TypesOfVariant("AnonymousStruct", k, DeepTable)
                          \X TypesOfVariant("Or", j, DeepTable) :
                self = p[1] /\ rhs = p[2]
    /\ before = self
    /\ op = "init"
    /\ result = "none"
    /\ calls = 0
    /\ NoSplit

NextTotal == IntersectTo \/ IsA \/ PossibilityAssignableTo \/ HasMember \/ HasTupleItem

SpecTotal == InitTotal /\ [][NextTotal]_vars

-----------------------------------------------------------------------------
(* apply_generics_type_argument: self is the receiver and rhs the slice    *)
(* type_arguments                                                          *)

InitApply ==
    /\ \E n \in 1..MaxApplySize : \E v \in Variants : self \in TypesOfVariant(v, n, TypeTable)
    /\ \E n \in 0..MaxTypeArguments : rhs \in SlicesOfLen(n)
    /\ before = self
    /\ op = "init"
    /\ result = "none"
    /\ calls = 0
    /\ NoSplit

(* let result = self.apply_generics_type_argument(&rhs) *)
ApplyGenericsTypeArgument ==
    /\ op = "init"
    /\ result' = apply_generics_type_argument(self, rhs)
    /\ op' = "apply_generics_type_argument"
    /\ UNCHANGED <<self, rhs, before, calls>>
    /\ UNCHANGED split_vars

NextApply == ApplyGenericsTypeArgument

SpecApply == InitApply /\ [][NextApply]_vars

-----------------------------------------------------------------------------
(* Operations on one type *)

InitType ==
    /\ \E n \in 1..MaxSize : \E v \in Variants : self \in TypesOfVariant(v, n, TypeTable)
    /\ rhs = self
    /\ before = self
    /\ op = "init"
    /\ result = "none"
    /\ calls = 0
    /\ NoSplit

(* self.normalize(): mutates the receiver in place *)
Normalize ==
    /\ op \in {"init", "normalize"}
    /\ calls < MaxCalls
    /\ self' = normalize(self)
    /\ before' = self
    /\ op' = "normalize"
    /\ calls' = calls + 1
    /\ UNCHANGED <<rhs, result>>
    /\ UNCHANGED split_vars

(* let result = self.is_a(&self) *)
IsASelf ==
    /\ op = "init"
    /\ result' = is_a(self, self)
    /\ op' = "is_a"
    /\ UNCHANGED <<self, rhs, before, calls>>
    /\ UNCHANGED split_vars

(* let result = Or(vec![self.clone(), self.clone()]).into_normalized() *)
NormalizeOrSame ==
    /\ op = "normalize"
    /\ result' = into_normalized(Or(<<self, self>>))
    /\ op' = "or_same"
    /\ UNCHANGED <<self, rhs, before, calls>>
    /\ UNCHANGED split_vars

(* let result = Or(vec![self.clone(), Unreachable]).into_normalized() *)
NormalizeOrUnreachable ==
    /\ op = "normalize"
    /\ result' = into_normalized(Or(<<self, Unreachable>>))
    /\ op' = "or_unreachable"
    /\ UNCHANGED <<self, rhs, before, calls>>
    /\ UNCHANGED split_vars

NextType == Normalize \/ IsASelf \/ NormalizeOrSame \/ NormalizeOrUnreachable

SpecType == InitType /\ [][NextType]_vars

-----------------------------------------------------------------------------
(* The projections of one type: result is the argument, the optional form  *)
(* and the boolean form.                                                   *)

(* let result = (member_name, self.member_type(member_name), self.has_member(member_name)) *)
MemberType ==
    /\ op = "init"
    /\ \E i \in 1..Len(MemberNames) :
          result' = <<MemberNames[i], member_type(self, MemberNames[i]),
                      has_member(self, MemberNames[i])>>
    /\ op' = "member_type"
    /\ UNCHANGED <<self, rhs, before, calls>>
    /\ UNCHANGED split_vars

(* let result = (n, self.tuple_item_type(n), self.has_tuple_item(n)) *)
TupleItemType ==
    /\ op = "init"
    /\ \E n \in 0..MaxIndex :
          result' = <<n, tuple_item_type(self, n), has_tuple_item(self, n)>>
    /\ op' = "tuple_item_type"
    /\ UNCHANGED <<self, rhs, before, calls>>
    /\ UNCHANGED split_vars

NextProjection == MemberType \/ TupleItemType

SpecProjection == InitType /\ [][NextProjection]_vars

Spec == SpecPair

-----------------------------------------------------------------------------
(* collect_top_level_item_with_imports: one step of the for loop per       *)
(* action, one action per arm of its match, and the return                 *)

InitCollect ==
    /\ \E n \in 0..MaxItems : top_level_statements \in TopLevelSequences(n)
    /\ cursor = 0
    /\ statements = <<>>
    /\ structs = <<>>
    /\ functions = <<>>
    /\ imports = <<>>
    /\ self = <<>>
    /\ rhs = <<>>
    /\ before = <<>>
    /\ op = "collect"
    /\ result = "none"
    /\ calls = 0

(* the next item of the for loop is of the given variant *)
NextStatementIs(variant) ==
    /\ op = "collect"
    /\ cursor < Len(top_level_statements)
    /\ top_level_statements[cursor + 1][1] = variant

(* lines 43-48 *)
CollectStatement ==
    /\ NextStatementIs("Statement")
    /\ LET normal_statement == top_level_statements[cursor + 1][2]
       IN /\ imports' = push_if_Import(imports, normal_statement)
          /\ statements' = push(statements, normal_statement)
    /\ cursor' = cursor + 1
    /\ UNCHANGED <<top_level_statements, structs, functions>>
    /\ UNCHANGED type_vars

(* lines 49-51 *)
CollectFunctionDefinition ==
    /\ NextStatementIs("FunctionDefinition")
    /\ LET function_definition == top_level_statements[cursor + 1][2]
       IN functions' = push(functions, WithImport(imports, function_definition))
    /\ cursor' = cursor + 1
    /\ UNCHANGED <<top_level_statements, statements, structs, imports>>
    /\ UNCHANGED type_vars

(* lines 52-54 *)
CollectStructDefinition ==
    /\ NextStatementIs("StructDefinition")
    /\ LET struct_definition == top_level_statements[cursor + 1][2]
       IN structs' = push(structs, WithImport(imports, struct_definition))
    /\ cursor' = cursor + 1
    /\ UNCHANGED <<top_level_statements, statements, functions, imports>>
    /\ UNCHANGED type_vars

(* line 57 *)
CollectReturn ==
    /\ op = "collect"
    /\ cursor = Len(top_level_statements)
    /\ result' = KirlTopLevelItems(statements, structs, functions)
    /\ op' = "collected"
    /\ UNCHANGED <<self, rhs, before, calls>>
    /\ UNCHANGED split_vars

NextCollect ==
    CollectStatement \/ CollectFunctionDefinition \/ CollectStructDefinition \/ CollectReturn

SpecCollect == InitCollect /\ [][NextCollect]_vars

-----------------------------------------------------------------------------
(* Properties of collect_top_level_item_with_imports (SpecCollect) *)

IsPrefix(s, t) == Len(s) <= Len(t) /\ SubSeq(t, 1, Len(s)) = s

(* the paths of the Import statements among the first n items, in source   *)
(* order                                                                   *)
RECURSIVE imports_before(_, _)
imports_before(items, n) ==
    IF n = 0 THEN <<>>
    ELSE imports_before(items, n - 1)
         \o (IF items[n][1] = "Statement" /\ items[n][2][2][1] = "Import"
             THEN <<items[n][2][2][2]>> ELSE <<>>)

(* the definitions emitted so far *)
emitted_definitions ==
    {structs[i] : i \in 1..Len(structs)} \cup {functions[i] : i \in 1..Len(functions)}

(* C18: each struct or function definition gets exactly the import paths   *)
(* of the Import statements at earlier positions of the same top-level     *)
(* sequence, in source order: imports after the definition are never       *)
(* included, the running list is never reset, and the import list of an    *)
(* earlier definition is a prefix of the import list of every later one.   *)
C18_ImportsSeenSoFar ==
    op \in {"collect", "collected"} =>
        /\ \A d \in emitted_definitions :
              d.import = imports_before(top_level_statements, d.item[1] - 1)
        /\ \A d \in emitted_definitions : \A e \in emitted_definitions :
              d.item[1] < e.item[1] => IsPrefix(d.import, e.import)
        /\ imports = imports_before(top_level_statements, cursor)

C18_Witness ==
    /\ op = "collected"
    /\ Len(structs) = 1
    /\ Len(functions) = 1
    /\ Len(structs[1].import) = 1
    /\ Len(functions[1].import) = 2
    /\ functions[1].import[1] # functions[1].import[2]
    /\ Len(imports) = 3

(* C19: top-level splitting is an order-preserving partition of its input: *)
(* every input item ends up in exactly one of the three output lists       *)
(* according to its kind, each list keeps the relative source order, and   *)
(* Import statements stay in the statement list.                           *)
items_of(variant) ==
    LET selected == SelectSeq(top_level_statements, LAMBDA item : item[1] = variant)
    IN [i \in 1..Len(selected) |-> selected[i][2]]

without_imports(definitions) == [i \in 1..Len(definitions) |-> definitions[i].item]

C19_OrderPreservingPartition ==
    op = "collected" =>
        /\ result.statements = items_of("Statement")
        /\ without_imports(result.structs) = items_of("StructDefinition")
        /\ without_imports(result.functions) = items_of("FunctionDefinition")
        /\ Len(result.statements) + Len(result.structs) + Len(result.functions)
              = Len(top_level_statements)

C19_Witness ==
    /\ op = "collected"
    /\ Len(result.statements) = 3
    /\ result.statements[1][2] = Expression
    /\ result.statements[2][2][1] = "Import"
    /\ result.statements[3][2] = Expression
    /\ Len(result.structs) = 1
    /\ Len(result.functions) = 1
    /\ result.functions[1].item[1] < result.structs[1].item[1]

-----------------------------------------------------------------------------
(* The conversions into HIRType: self is the surface type or the pattern   *)

InitConvert ==
    /\ \E n \in 1..MaxSurfaceSize :
          \/ n = 1 /\ self \in Surface1 \cup Patterns1
          \/ n > 1 /\ \E v \in SurfaceVariants : self \in SurfaceTypesOfVariant(v, n, SurfaceTable)
          \/ n > 1 /\ \E v \in PatternVariants : self \in PatternsOfVariant(v, n, PatternTable)
    /\ rhs = <<>>
    /\ before = <<>>
    /\ op = "init"
    /\ result = "none"
    /\ calls = 0
    /\ NoSplit

IsPattern(value) == value[1] \in {"Pattern::Variable", "Pattern::Tuple", "Pattern::Struct"}

(* let result = HIRType::try_from(self) for a surface type *)
TryFromType ==
    /\ op = "init"
    /\ ~IsPattern(self)
    /\ result' = try_from_Type(self)
    /\ op' = "try_from_type"
    /\ UNCHANGED <<self, rhs, before, calls>>
    /\ UNCHANGED split_vars

(* let result = HIRType::try_from(&self) for a pattern *)
TryFromPattern ==
    /\ op = "init"
    /\ IsPattern(self)
    /\ result' = try_from_Pattern(self)
    /\ op' = "try_from_pattern"
    /\ UNCHANGED <<self, rhs, before, calls>>
    /\ UNCHANGED split_vars

NextConvert == TryFromType \/ TryFromPattern

SpecConvert == InitConvert /\ [][NextConvert]_vars

-----------------------------------------------------------------------------
(* Properties of the conversions (SpecConvert) *)

(* the names that a member list lists twice *)
listed_twice(members) ==
    {members[i][1] : i \in {k \in 1..Len(members) :
                               \E j \in 1..(k - 1) : members[j][1] = members[k][1]}}

(* the names that some anonymous struct at any nesting level of a surface  *)
(* type or of a pattern lists twice, the sub-patterns and the generic      *)
(* arguments of a named-struct pattern included                            *)
RECURSIVE duplicated_members(_)
duplicated_members(value) ==
    CASE value[1] \in {"Type::None", "Type::Unreachable", "Pattern::Variable"} -> {}
      [] value[1] = "Type::NamedType" ->
            UNION {duplicated_members(value[3][i]) : i \in 1..Len(value[3])}
      [] value[1] \in {"Type::Tuple", "Type::Or", "Pattern::Tuple"} ->
            UNION {duplicated_members(value[2][i]) : i \in 1..Len(value[2])}
      [] value[1] = "Type::Array" -> duplicated_members(value[2])
      [] value[1] = "Type::Function" ->
            UNION {duplicated_members(value[2][i]) : i \in 1..Len(value[2])}
            \cup duplicated_members(value[3])
      [] value[1] = "Type::AnonymousStruct" ->
            listed_twice(value[2])
            \cup UNION {duplicated_members(value[2][i][2]) : i \in 1..Len(value[2])}
      [] value[1] = "Pattern::Struct" ->
            (IF value[2][1] = "StructName::Anonymous" THEN listed_twice(value[3])
             ELSE UNION {duplicated_members(value[2][3][i]) : i \in 1..Len(value[2][3])})
            \cup UNION {duplicated_members(value[3][i][2]) : i \in 1..Len(value[3])}

(* C20: both conversions fail with DuplicatedMember(n) if and only if some *)
(* anonymous struct at any nesting level of the input, one nested inside   *)
(* the sub-patterns of a named-struct pattern or inside generic arguments  *)
(* included, lists the field name n twice; otherwise they succeed.         *)
C20_DuplicatedMember ==
    op \in {"try_from_type", "try_from_pattern"} =>
        IF duplicated_members(self) = {}
        THEN result[1] = "Ok"
        ELSE \E n \in duplicated_members(self) : result = Err(DuplicatedMember(n))

-----------------------------------------------------------------------------
(* Properties of is_a on a pair of types (SpecPair) *)

IsUnion(ty) == Kind(ty) = "Or"

(* C1 as stated: Unreachable is the bottom of is_a: Unreachable.is_a(t) is *)
(* true for every t, and t.is_a(Unreachable) is false for every t other    *)
(* than Unreachable, Infer and unions included.                            *)
C1_UnreachableBottomForAll ==
    op = "is_a" =>
        /\ (self = Unreachable => result = TRUE)
        /\ (rhs = Unreachable /\ self # Unreachable => result = FALSE)

(* C1 amended: Unreachable.is_a(t) is true for every t; t.is_a(Unreachable)*)
(* is false for every t other than Unreachable and Infer (unions of any    *)
(* components included), and Infer.is_a(Unreachable) is true.              *)
C1_UnreachableBottom ==
    op = "is_a" =>
        /\ (self = Unreachable => result = TRUE)
        /\ (rhs = Unreachable /\ self \notin {Unreachable, Infer} => result = FALSE)
        /\ (rhs = Unreachable /\ self = Infer => result = TRUE)

C1_Witness ==
    /\ op = "is_a"
    /\ rhs = Unreachable
    /\ IsUnion(self)
    /\ Len(self[2]) = 2
    /\ result = FALSE

(* C2: union elimination: Or(ts).is_a(u) is true if and only if            *)
(* ts[i].is_a(u) is true for every component ts[i], for every list ts      *)
(* (the empty one included) and every type u.                              *)
C2_UnionElimination ==
    (op = "is_a" /\ IsUnion(self)) =>
        (result <=> \A i \in 1..Len(self[2]) : is_a(self[2][i], rhs))

(* C3 as stated: union introduction: t.is_a(Or(ts)) is true if and only if *)
(* some single component ts[i] has t.is_a(ts[i]), for every type t.        *)
C3_UnionIntroductionForAll ==
    (op = "is_a" /\ IsUnion(rhs)) =>
        (result <=> \E i \in 1..Len(rhs[2]) : is_a(self, rhs[2][i]))

(* C3 amended: for every type t that is not Infer, not Unreachable and not *)
(* a union, t.is_a(Or(ts)) is true if and only if some component ts[i] has *)
(* t.is_a(ts[i]).                                                          *)
C3_UnionIntroduction ==
    (op = "is_a" /\ IsUnion(rhs) /\ Kind(self) \notin {"Infer", "Unreachable", "Or"}) =>
        (result <=> \E i \in 1..Len(rhs[2]) : is_a(self, rhs[2][i]))

C3_Witness ==
    /\ op = "is_a"
    /\ IsUnion(rhs)
    /\ Len(rhs[2]) = 2
    /\ Kind(self) = "GenericsTypeArgument"
    /\ ~is_a(self, rhs[2][1])
    /\ is_a(self, rhs[2][2])
    /\ result = TRUE

(* C10 as stated: Array is invariant in its element type: for Infer-free   *)
(* a and b, Array(a).is_a(Array(b)) is true only when a.is_a(b) and        *)
(* b.is_a(a).                                                              *)
RECURSIVE contains_Infer(_)
contains_Infer(ty) ==
    CASE Kind(ty) = "Infer" -> TRUE
      [] Kind(ty) \in {"Unreachable", "GenericsTypeArgument"} -> FALSE
      [] Kind(ty) = "Named" -> \E i \in 1..Len(ty[3]) : contains_Infer(ty[3][i])
      [] Kind(ty) \in {"Tuple", "Or"} -> \E i \in 1..Len(ty[2]) : contains_Infer(ty[2][i])
      [] Kind(ty) = "Array" -> contains_Infer(ty[2])
      [] Kind(ty) = "Function" ->
            \/ \E i \in 1..Len(ty[2]) : contains_Infer(ty[2][i])
            \/ contains_Infer(ty[3])
      [] Kind(ty) = "AnonymousStruct" -> \E i \in 1..Len(ty[2]) : contains_Infer(ty[2][i][2])

BothArrays ==
    /\ op = "is_a"
    /\ Kind(self) = "Array"
    /\ Kind(rhs) = "Array"
    /\ ~contains_Infer(self)
    /\ ~contains_Infer(rhs)

C10_ArrayInvariant ==
    (BothArrays /\ result = TRUE) => (is_a(self[2], rhs[2]) /\ is_a(rhs[2], self[2]))

(* C10 amended: Array is covariant in its element type: for Infer-free a   *)
(* and b, Array(a).is_a(Array(b)) is true exactly when a.is_a(b), so a     *)
(* strictly narrower element type does make the array a subtype.           *)
C10_ArrayCovariant ==
    BothArrays => (result <=> is_a(self[2], rhs[2]))

C10_Witness ==
    /\ BothArrays
    /\ result = TRUE
    /\ Kind(rhs[2]) = "Tuple"
    /\ ~is_a(rhs[2], self[2])

(* C11: is_a returns the result of the first matching clause of the twelve *)
(* ordered clauses: Infer on either side true; self Unreachable true;      *)
(* other Unreachable false; generic parameters equal indices; Named equal  *)
(* path, equal argument count and pairwise is_a; Tuple |self| >= |other|   *)
(* and pairwise is_a on the overlap; Array element is_a; Function equal    *)
(* arity, each other.arg.is_a(self.arg) and self.result.is_a(other.result);*)
(* AnonymousStruct every key of other present in self with is_a; self Or   *)
(* all components; other Or any component; otherwise false.                *)
BothOf(s, o, variant) == Kind(s) = variant /\ Kind(o) = variant

first_matching_clause(s, o) ==
    IF Kind(s) = "Infer" \/ Kind(o) = "Infer" THEN TRUE
    ELSE IF Kind(s) = "Unreachable" THEN TRUE
    ELSE IF Kind(o) = "Unreachable" THEN FALSE
    ELSE IF BothOf(s, o, "GenericsTypeArgument") THEN s[2] = o[2]
    ELSE IF BothOf(s, o, "Named") THEN
        /\ s[2] = o[2]
        /\ Len(s[3]) = Len(o[3])
        /\ \A i \in 1..Len(s[3]) : is_a(s[3][i], o[3][i])
    ELSE IF BothOf(s, o, "Tuple") THEN
        /\ Len(s[2]) >= Len(o[2])
        /\ \A i \in 1..Len(o[2]) : is_a(s[2][i], o[2][i])
    ELSE IF BothOf(s, o, "Array") THEN is_a(s[2], o[2])
    ELSE IF BothOf(s, o, "Function") THEN
        /\ Len(s[2]) = Len(o[2])
        /\ \A i \in 1..Len(s[2]) : is_a(o[2][i], s[2][i])
        /\ is_a(s[3], o[3])
    ELSE IF BothOf(s, o, "AnonymousStruct") THEN
        \A j \in 1..Len(o[2]) :
            \E i \in 1..Len(s[2]) : s[2][i][1] = o[2][j][1] /\ is_a(s[2][i][2], o[2][j][2])
    ELSE IF Kind(s) = "Or" THEN \A i \in 1..Len(s[2]) : is_a(s[2][i], o)
    ELSE IF Kind(o) = "Or" THEN \E j \in 1..Len(o[2]) : is_a(s, o[2][j])
    ELSE FALSE

C11_FirstMatchingClause ==
    op = "is_a" => result = first_matching_clause(self, rhs)

C11_Witness ==
    /\ op = "is_a"
    /\ BothOf(self, rhs, "Function")
    /\ Len(self[2]) = 1
    /\ Len(rhs[2]) = 1
    /\ is_a(rhs[2][1], self[2][1])
    /\ ~is_a(self[2][1], rhs[2][1])
    /\ self[3] # rhs[3]
    /\ result = TRUE

(* C17: possibility_assignable_to is true when the two types are equal or *)
(* when either is Infer or a GenericsTypeArgument; otherwise for two       *)
(* Tuples it is the pairwise possibility on the common prefix, for two     *)
(* Arrays the possibility of the elements, for two AnonymousStructs true   *)
(* unless a field present in both is impossible, for a union on either     *)
(* side true iff some component is possible, and false for every other     *)
(* pair of distinct types, two Named types that differ only in generic     *)
(* arguments and two distinct Function types included.                     *)
IsPlaceholder(ty) == Kind(ty) \in {"Infer", "GenericsTypeArgument"}

possibility_by_clause(s, t) ==
    IF s = t \/ IsPlaceholder(s) \/ IsPlaceholder(t) THEN TRUE
    ELSE IF BothOf(s, t, "Tuple") THEN
        \A i \in 1..Len(s[2]) :
            i <= Len(t[2]) => possibility_assignable_to(s[2][i], t[2][i])
    ELSE IF BothOf(s, t, "Array") THEN possibility_assignable_to(s[2], t[2])
    ELSE IF BothOf(s, t, "AnonymousStruct") THEN
        \A i \in 1..Len(s[2]) : \A j \in 1..Len(t[2]) :
            s[2][i][1] = t[2][j][1] => possibility_assignable_to(s[2][i][2], t[2][j][2])
    ELSE IF Kind(s) = "Or" THEN \E i \in 1..Len(s[2]) : possibility_assignable_to(s[2][i], t)
    ELSE IF Kind(t) = "Or" THEN \E j \in 1..Len(t[2]) : possibility_assignable_to(s, t[2][j])
    ELSE FALSE

C17_PossibilityByClause ==
    op = "possibility_assignable_to" => result = possibility_by_clause(self, rhs)

C17_Witness ==
    /\ op = "possibility_assignable_to"
    /\ BothOf(self, rhs, "Tuple")
    /\ Len(self[2]) = 1
    /\ Len(rhs[2]) = 2
    /\ ~IsPlaceholder(self[2][1])
    /\ ~IsPlaceholder(rhs[2][1])
    /\ ~IsPlaceholder(rhs[2][2])
    /\ ~is_a(self, rhs)
    /\ result = TRUE

-----------------------------------------------------------------------------
(* Properties of intersect_to (SpecTotal, SpecUnionPair) *)

(* the values of enum HIRType, to any depth *)
RECURSIVE IsHIRType(_)
IsHIRType(ty) ==
    /\ ty # Panic
    /\ Kind(ty) \in Variants
    /\ CASE Kind(ty) \in {"Infer", "Unreachable", "GenericsTypeArgument"} -> TRUE
         [] Kind(ty) = "Named" -> \A i \in 1..Len(ty[3]) : IsHIRType(ty[3][i])
         [] Kind(ty) \in {"Tuple", "Or"} -> \A i \in 1..Len(ty[2]) : IsHIRType(ty[2][i])
         [] Kind(ty) = "Array" -> IsHIRType(ty[2])
         [] Kind(ty) = "Function" ->
               /\ \A i \in 1..Len(ty[2]) : IsHIRType(ty[2][i])
               /\ IsHIRType(ty[3])
         [] Kind(ty) = "AnonymousStruct" ->
               /\ \A i \in 1..Len(ty[2]) : IsHIRType(ty[2][i][2])
               /\ \A i \in 1..(Len(ty[2]) - 1) : cmp_String(ty[2][i][1], ty[2][i + 1][1]) < 0

(* C12: the type operations are total: intersect_to returns a type and     *)
(* never aborts, the lookup of self's fields in an AnonymousStruct         *)
(* candidate of a target union always finds the field, and is_a,           *)
(* has_member, has_tuple_item and possibility_assignable_to return a       *)
(* boolean.                                                                *)
C12_Total ==
    /\ op = "intersect_to" => IsHIRType(result)
    /\ op \in {"is_a", "has_member", "has_tuple_item", "possibility_assignable_to"} =>
          result \in BOOLEAN

C12_Witness ==
    /\ op = "intersect_to"
    /\ Kind(self) = "AnonymousStruct"
    /\ Len(self[2]) = 1
    /\ IsUnion(rhs)
    /\ Len(rhs[2]) = 2
    /\ AnonymousStruct_candidate(rhs[2][1], self)
    /\ Kind(rhs[2][2]) = "AnonymousStruct"
    /\ ~AnonymousStruct_candidate(rhs[2][2], self)
    /\ Kind(result) = "AnonymousStruct"
    /\ Len(result[2]) = 1

(* C15: intersect_to of a Tuple self against a union target returns a      *)
(* Tuple of exactly self's length whose i-th element is the union, in      *)
(* candidate order, of self[i].intersect_to(c[i]) over exactly those       *)
(* components c of the target that are Tuples with c.is_a(self);           *)
(* components that are not Tuples or are shorter than self contribute      *)
(* nothing, and when no component qualifies every element is the empty     *)
(* union.                                                                  *)
TupleAgainstUnion ==
    /\ op = "intersect_to"
    /\ Kind(self) = "Tuple"
    /\ IsUnion(rhs)

(* the positions of the components of the target that qualify, ascending *)
qualifying_Tuples(ty, types) ==
    SelectSeq([j \in 1..Len(types) |-> j],
              LAMBDA j : Kind(types[j]) = "Tuple" /\ is_a(types[j], ty))

C15_TupleAgainstUnion ==
    TupleAgainstUnion =>
        LET q == qualifying_Tuples(self, rhs[2])
        IN /\ Kind(result) = "Tuple"
           /\ Len(result[2]) = Len(self[2])
           /\ \A i \in 1..Len(self[2]) :
                 result[2][i] =
                    Or([n \in 1..Len(q) |-> intersect_to(self[2][i], rhs[2][q[n]][2][i])])
           /\ \A j \in 1..Len(rhs[2]) :
                 (Kind(rhs[2][j]) # "Tuple" \/ Len(rhs[2][j][2]) < Len(self[2]))
                    => \A n \in 1..Len(q) : q[n] # j

C15_Witness ==
    /\ TupleAgainstUnion
    /\ Len(self[2]) = 1
    /\ qualifying_Tuples(self, rhs[2]) = <<1, 2>>
    /\ Kind(result) = "Tuple"
    /\ Len(result[2][1][2]) = 2
    /\ result[2][1][2][1] # result[2][1][2][2]
    /\ cmp(result[2][1][2][1], result[2][1][2][2]) > 0

(* C16 as stated: intersect_to of Array(e) against a union target keeps    *)
(* exactly the Array components Array(c) with e.is_a(c) and returns Array  *)
(* of the normalized union of e.intersect_to(c) over those components.     *)
ArrayAgainstUnion ==
    /\ op = "intersect_to"
    /\ Kind(self) = "Array"
    /\ IsUnion(rhs)

(* the element types c of the Array components of the target that a test   *)
(* keeps, in component order                                               *)
kept_elements(types, keep(_)) ==
    LET kept == SelectSeq(types, LAMBDA ty : Kind(ty) = "Array" /\ keep(ty[2]))
    IN [n \in 1..Len(kept) |-> kept[n][2]]

Array_of_union(e, elements) ==
    Array(into_normalized(Or([n \in 1..Len(elements) |-> intersect_to(e, elements[n])])))

C16_ArrayKeepsSupertypes ==
    ArrayAgainstUnion =>
        result = Array_of_union(self[2], kept_elements(rhs[2], LAMBDA c : is_a(self[2], c)))

(* C16 amended: intersect_to of Array(e) against a union target keeps      *)
(* exactly the Array components Array(c) whose element type is a subtype   *)
(* of self's element type (c.is_a(e)), and returns Array of the normalized *)
(* union of e.intersect_to(c) over those components.                       *)
C16_ArrayKeepsSubtypes ==
    ArrayAgainstUnion =>
        result = Array_of_union(self[2], kept_elements(rhs[2], LAMBDA c : is_a(c, self[2])))

C16_Witness ==
    /\ ArrayAgainstUnion
    /\ Len(rhs[2]) = 2
    /\ Kind(rhs[2][1]) = "Array"
    /\ Kind(rhs[2][2]) = "Tuple"
    /\ is_a(rhs[2][1][2], self[2])
    /\ ~is_a(self[2], rhs[2][1][2])
    /\ result = Array(intersect_to(self[2], rhs[2][1][2]))

-----------------------------------------------------------------------------
(* Properties of apply_generics_type_argument (SpecApply) *)

(* the indices of the generic parameters that occur anywhere in ty *)
RECURSIVE occurring_indices(_)
occurring_indices(ty) ==
    CASE Kind(ty) \in {"Infer", "Unreachable"} -> {}
      [] Kind(ty) = "GenericsTypeArgument" -> {ty[2]}
      [] Kind(ty) = "Named" -> UNION {occurring_indices(ty[3][i]) : i \in 1..Len(ty[3])}
      [] Kind(ty) \in {"Tuple", "Or"} -> UNION {occurring_indices(ty[2][i]) : i \in 1..Len(ty[2])}
      [] Kind(ty) = "Array" -> occurring_indices(ty[2])
      [] Kind(ty) = "Function" ->
            UNION {occurring_indices(ty[2][i]) : i \in 1..Len(ty[2])} \cup occurring_indices(ty[3])
      [] Kind(ty) = "AnonymousStruct" ->
            UNION {occurring_indices(ty[2][i][2]) : i \in 1..Len(ty[2])}

(* ty with every GenericsTypeArgument(i) replaced by args[i] (0-based) and *)
(* every other node as it is; what is inserted is not visited              *)
RECURSIVE replaced(_, _)
replaced(ty, args) ==
    CASE Kind(ty) \in {"Infer", "Unreachable"} -> ty
      [] Kind(ty) = "GenericsTypeArgument" -> args[ty[2] + 1]
      [] Kind(ty) = "Named" -> <<"Named", ty[2], [i \in 1..Len(ty[3]) |-> replaced(ty[3][i], args)]>>
      [] Kind(ty) \in {"Tuple", "Or"} ->
            <<Kind(ty), [i \in 1..Len(ty[2]) |-> replaced(ty[2][i], args)]>>
      [] Kind(ty) = "Array" -> <<"Array", replaced(ty[2], args)>>
      [] Kind(ty) = "Function" ->
            <<"Function", [i \in 1..Len(ty[2]) |-> replaced(ty[2][i], args)], replaced(ty[3], args)>>
      [] Kind(ty) = "AnonymousStruct" ->
            <<"AnonymousStruct",
              [i \in 1..Len(ty[2]) |-> <<ty[2][i][1], replaced(ty[2][i][2], args)>>]>>

(* C13: apply_generics_type_argument(t, args) returns no result if and     *)
(* only if some GenericsTypeArgument(i) with i >= |args| occurs anywhere   *)
(* in t, the generic arguments of a Named type included; otherwise it      *)
(* returns t with every GenericsTypeArgument(i) replaced by args[i] and    *)
(* every other node unchanged, the inserted args[i] not being substituted  *)
(* again.                                                                  *)
C13_ApplyGenerics ==
    op = "apply_generics_type_argument" =>
        IF \E i \in occurring_indices(self) : i >= Len(rhs)
        THEN result = None
        ELSE result = Some(replaced(self, rhs))

C13_Witness ==
    /\ op = "apply_generics_type_argument"
    /\ Kind(self) = "Named"
    /\ Len(self[3]) = 1
    /\ Kind(self[3][1]) = "Array"
    /\ self[3][1][2] = GenericsTypeArgument(0)
    /\ rhs = <<GenericsTypeArgument(1)>>
    /\ result = Some(Named(self[2], <<Array(GenericsTypeArgument(1))>>))

-----------------------------------------------------------------------------
(* Properties of the projections (SpecProjection) *)

(* the optional results of the components of a union, in component order *)
component_member_types(items, m) == [i \in 1..Len(items) |-> member_type(items[i], m)]

component_tuple_item_types(items, n) == [i \in 1..Len(items) |-> tuple_item_type(items[i], n)]

(* present only if every component is present, and then Or of the          *)
(* per-component results in component order                                *)
all_components_rule(optional, components) ==
    /\ optional # None <=> \A i \in 1..Len(components) : components[i] # None
    /\ optional # None =>
          optional = Some(Or([i \in 1..Len(components) |-> components[i][2]]))

(* C14: member_type(m) is present exactly when has_member(m) is true and   *)
(* tuple_item_type(n) is present exactly when has_tuple_item(n) is true;   *)
(* on Or(ts) the result is present only if every component exposes the     *)
(* member or slot, and is then Or of the per-component results in          *)
(* component order.                                                        *)
C14_ProjectionThroughUnion ==
    /\ op \in {"member_type", "tuple_item_type"} => (result[2] # None <=> result[3])
    /\ (op = "member_type" /\ IsUnion(self)) =>
          all_components_rule(result[2], component_member_types(self[2], result[1]))
    /\ (op = "tuple_item_type" /\ IsUnion(self)) =>
          all_components_rule(result[2], component_tuple_item_types(self[2], result[1]))

C14_Witness ==
    /\ op = "member_type"
    /\ IsUnion(self)
    /\ Len(self[2]) = 2
    /\ Kind(self[2][1]) = "AnonymousStruct"
    /\ Kind(self[2][2]) = "Infer"
    /\ result[3] = TRUE
    /\ Kind(result[2][2][2][1]) = "Tuple"
    /\ result[2] = Some(Or(<<result[2][2][2][1], Infer>>))

-----------------------------------------------------------------------------
(* Properties of normalize and of is_a on one type (SpecType).  In         *)
(* SpecType rhs keeps the value the receiver had at the start and before   *)
(* the value it had when the last normalize was called.                    *)

(* C4: normalization preserves meaning under the subtype relation:         *)
(* normalize(t).is_a(t) and t.is_a(normalize(t)) for every type t, unions  *)
(* whose only component is Unreachable included.                           *)
C4_NormalizePreservesMeaning ==
    op = "normalize" => (is_a(self, before) /\ is_a(before, self))

(* C5: normalization is idempotent: normalizing an already normalized      *)
(* value changes nothing.                                                  *)
C5_NormalizeIdempotent ==
    (op = "normalize" /\ calls >= 2) => self = before

C5_Witness ==
    /\ op = "normalize"
    /\ calls = 2
    /\ rhs # self
    /\ IsUnion(rhs)
    /\ self = before

(* C6: after normalize every Or at any position of the result, the generic *)
(* arguments of a Named type included, has no Or component, has its        *)
(* components in strictly ascending order, has no Unreachable component    *)
(* and does not have exactly one component.                                *)
canonical_Or(items) ==
    /\ \A i \in 1..Len(items) : Kind(items[i]) # "Or"
    /\ \A i \in 1..(Len(items) - 1) : cmp(items[i], items[i + 1]) < 0
    /\ \A i \in 1..Len(items) : items[i] # Unreachable
    /\ Len(items) # 1

RECURSIVE canonical_everywhere(_)
canonical_everywhere(ty) ==
    CASE Kind(ty) \in {"Infer", "Unreachable", "GenericsTypeArgument"} -> TRUE
      [] Kind(ty) = "Named" -> \A i \in 1..Len(ty[3]) : canonical_everywhere(ty[3][i])
      [] Kind(ty) = "Tuple" -> \A i \in 1..Len(ty[2]) : canonical_everywhere(ty[2][i])
      [] Kind(ty) = "Array" -> canonical_everywhere(ty[2])
      [] Kind(ty) = "Function" ->
            /\ \A i \in 1..Len(ty[2]) : canonical_everywhere(ty[2][i])
            /\ canonical_everywhere(ty[3])
      [] Kind(ty) = "AnonymousStruct" ->
            \A i \in 1..Len(ty[2]) : canonical_everywhere(ty[2][i][2])
      [] Kind(ty) = "Or" ->
            /\ canonical_Or(ty[2])
            /\ \A i \in 1..Len(ty[2]) : canonical_everywhere(ty[2][i])

C6_NormalizeReachesEveryUnion ==
    op = "normalize" => canonical_everywhere(self)

(* C7: the normal form of a union does not depend on how its components    *)
(* are listed: Or of any permutation of ts, and Or([Or(as), b...]) for any *)
(* split ts = as ++ [b...], normalize to the same value as Or(ts).         *)
without(items, i) == SubSeq(items, 1, i - 1) \o SubSeq(items, i + 1, Len(items))

RECURSIVE permutations_of(_)
permutations_of(items) ==
    IF items = <<>> THEN {<<>>}
    ELSE UNION {{<<items[i]>> \o q : q \in permutations_of(without(items, i))} : i \in 1..Len(items)}

relistings(items) ==
    {Or(q) : q \in permutations_of(items)}
    \cup {Or(<<Or(SubSeq(items, 1, k))>> \o SubSeq(items, k + 1, Len(items))) : k \in 0..Len(items)}

C7_ListingIndependent ==
    (op = "normalize" /\ IsUnion(before)) =>
        \A r \in relistings(before[2]) : into_normalized(r) = self

C7_Witness ==
    /\ op = "normalize"
    /\ IsUnion(before)
    /\ Len(before[2]) = 3
    /\ cmp(before[2][1], before[2][2]) > 0
    /\ cmp(before[2][2], before[2][3]) < 0
    /\ IsUnion(self)
    /\ Len(self[2]) = 3

(* C8 as stated: for every x in normal form, the empty union included,     *)
(* Or([x, x]) normalizes to x and Or([x, Unreachable]) normalizes to x.    *)
InNormalForm(ty) == ty = into_normalized(ty)

C8_CollapseLawsForAll ==
    (op \in {"or_same", "or_unreachable"} /\ InNormalForm(self)) => result = self

(* C8 amended: for every x in normal form Or([x, x]) normalizes to x, and  *)
(* Or([x, Unreachable]) normalizes to x for every such x other than the    *)
(* empty union; Or([Or([]), Unreachable]) normalizes to Unreachable.       *)
C8_CollapseLaws ==
    /\ (op = "or_same" /\ InNormalForm(self)) => result = self
    /\ (op = "or_unreachable" /\ InNormalForm(self) /\ self # Or(<<>>)) => result = self
    /\ (op = "or_unreachable" /\ self = Or(<<>>)) => result = Unreachable

C8_Witness ==
    /\ op = "or_unreachable"
    /\ InNormalForm(self)
    /\ IsUnion(self)
    /\ Len(self[2]) = 2
    /\ result = self

(* C9: is_a is reflexive: t.is_a(t) is true for every type t.              *)
C9_Reflexive ==
    op = "is_a" => result = TRUE

C9_Witness ==
    /\ op = "is_a"
    /\ Kind(self) = "Function"
    /\ Len(self[2]) = 1
    /\ IsUnion(self[2][1])
    /\ Len(self[2][1][2]) = 1
    /\ result = TRUE

-----------------------------------------------------------------------------
(* The printed forms: impl ToString for HIRType, for Variable at the       *)
(* resolved-items and the (Uuid, HIRType) stage, get_ordinal, and the arms *)
(* of impl ToString for HIRExpression that print a tuple index.  A String  *)
(* is a TLA+ string and format! is concatenation.                          *)

Digits == <<"0", "1", "2", "3", "4", "5", "6", "7", "8", "9">>

(* format!("{}", n) for a usize *)
RECURSIVE usize_to_string(_)
usize_to_string(n) ==
    IF n < 10 THEN Digits[n + 1]
    ELSE usize_to_string(n \div 10) \o Digits[(n % 10) + 1]

(* .reduce(|a, b| format!("{}<separator>{}", a, b)).unwrap_or_default(),   *)
(* and [String]::join                                                      *)
RECURSIVE join(_, _)
join(strings, separator) ==
    IF strings = <<>> THEN ""
    ELSE IF Len(strings) = 1 THEN strings[1]
    ELSE join(SubSeq(strings, 1, Len(strings) - 1), separator)
         \o separator \o strings[Len(strings)]

RECURSIVE HIRType_to_string(_)
HIRType_to_string(ty) ==
    LET each(items) == [i \in 1..Len(items) |-> HIRType_to_string(items[i])]
    IN CASE Kind(ty) = "Infer" -> "$Infer"
         [] Kind(ty) = "Unreachable" -> "!"
         [] Kind(ty) = "GenericsTypeArgument" -> "$T" \o usize_to_string(ty[2])
         [] Kind(ty) = "Named" ->
               join(ty[2], "::")
               \o (IF ty[3] = <<>> THEN "" ELSE "::<" \o join(each(ty[3]), ", ") \o ">")
         [] Kind(ty) = "Tuple" -> "(" \o join(each(ty[2]), ", ") \o ")"
         [] Kind(ty) = "Array" -> "[" \o HIRType_to_string(ty[2]) \o "]"
         [] Kind(ty) = "Function" ->
               "(" \o join(each(ty[2]), ", ") \o ")->" \o HIRType_to_string(ty[3])
         [] Kind(ty) = "AnonymousStruct" ->
               "#{" \o join([i \in 1..Len(ty[2]) |->
                               ty[2][i][1] \o ": " \o HIRType_to_string(ty[2][i][2])], ", ")
               \o "}"
         [] Kind(ty) = "Or" -> "(" \o join(each(ty[2]), " | ") \o ")"

(* enum Variable<Reference>: the position range and the generics list of   *)
(* Named are bound to _ by every printer and are left out                  *)
Variable_Named(reference) == <<"Variable::Named", reference>>

Variable_Unnamed(id) == <<"Variable::Unnamed", id>>

(* ResolvedItems(_, candidates): each candidate is (_, id, ty); a Uuid is  *)
(* the string it prints as                                                 *)
ResolvedItems(candidates) == <<"ResolvedItems", candidates>>

Candidate(id, ty) == <<"item", id, ty>>

(* line 508: format!("{}: {}", candidate[0].1, candidate[0].1.to_string()) *)
candidate_to_string_one(candidate) == candidate[2] \o ": " \o candidate[2]

(* line 509: |(_, id, ty)| format!("{}: {}", id, ty.to_string()) *)
candidate_to_string(candidate) == candidate[2] \o ": " \o HIRType_to_string(candidate[3])

(* impl ToString for Variable<ResolvedItems> *)
Variable_ResolvedItems_to_string(variable) ==
    IF variable[1] = "Variable::Unnamed" THEN "$" \o usize_to_string(variable[2])
    ELSE LET candidates == variable[2][2]
         IN IF Len(candidates) = 1 THEN candidate_to_string_one(candidates[1])
            ELSE "$either("
                 \o join([i \in 1..Len(candidates) |-> candidate_to_string(candidates[i])], ", ")
                 \o ")"

(* impl ToString for Variable<(Uuid, HIRType)> *)
Variable_Uuid_HIRType_to_string(variable) ==
    IF variable[1] = "Variable::Unnamed" THEN "$" \o usize_to_string(variable[2])
    ELSE variable[2][1] \o ": " \o HIRType_to_string(variable[2][2])

(* the mutation of get_ordinal without the guard on the tens *)
get_ordinal_by_last_digit(index) ==
    CASE index % 10 = 1 -> "st"
      [] index % 10 = 2 -> "nd"
      [] index % 10 = 3 -> "rd"
      [] OTHER -> "th"

get_ordinal(index) ==
    CASE index \div 10 = 1 -> "th"
      [] index % 10 = 1 -> "st"
      [] index % 10 = 2 -> "nd"
      [] index % 10 = 3 -> "rd"
      [] OTHER -> "th"

(* the variants of HIRExpression and ReferenceAccess that print a tuple    *)
(* index; the value of an Assign is a Variable                             *)
AccessTupleItem(variable, index) == <<"AccessTupleItem", variable, index>>

ReferenceAccess_TupleItem(variable, index) == <<"ReferenceAccess::TupleItem", variable, index>>

Assign(variable, value) == <<"Assign", variable, value>>

(* impl ToString for HIRExpression<(Uuid, HIRType)>: lines 602-606 and 637 *)
HIRExpression_to_string(expression) ==
    CASE expression[1] = "AccessTupleItem" ->
            Variable_Uuid_HIRType_to_string(expression[2]) \o "."
            \o usize_to_string(expression[3]) \o get_ordinal(expression[3])
      [] expression[1] = "Assign" /\ expression[2][1] = "ReferenceAccess::TupleItem" ->
            Variable_Uuid_HIRType_to_string(expression[2][2]) \o "."
            \o usize_to_string(expression[2][3]) \o get_ordinal(expression[2][3])
            \o " = " \o Variable_Uuid_HIRType_to_string(expression[3])

(* the named variables have at most this many candidates *)
MaxCandidates == 2

(* the tuple indices go up to this one, past 111..113 *)
MaxTupleIndex == 120

Uuids == {"6ba7b810", "6ba7b811"}

UnnamedIds == {0, 12}

CandidateTypes ==
    Types1 \cup {Named(<<"Number">>, <<GenericsTypeArgument(0)>>),
                 Named(<<"std", "Vec">>, <<Infer, Unreachable>>),
                 Tuple(<<GenericsTypeArgument(0), GenericsTypeArgument(1)>>),
                 Array(Infer),
                 Function(<<Infer, Tuple(<<>>)>>, Unreachable),
                 AnonymousStruct(<< <<"a", Tuple(<<>>)>>, <<"b", Infer>> >>),
                 Or(<<Infer, Unreachable>>)}

RECURSIVE CandidateLists(_)
CandidateLists(n) ==
    IF n = 0 THEN {<<>>}
    ELSE {<<Candidate(id, ty)>> \o rest :
             id \in Uuids, ty \in CandidateTypes, rest \in CandidateLists(n - 1)}

InitPrint ==
    /\ \/ \E n \in 0..MaxCandidates : self \in {Variable_Named(ResolvedItems(c)) : c \in CandidateLists(n)}
       \/ self \in {Variable_Named(<<id, ty>>) : id \in Uuids, ty \in CandidateTypes}
       \/ self \in {Variable_Unnamed(id) : id \in UnnamedIds}
       \/ self \in {AccessTupleItem(Variable_Unnamed(id), index) :
                       id \in UnnamedIds, index \in 0..MaxTupleIndex}
       \/ self \in {Assign(ReferenceAccess_TupleItem(Variable_Unnamed(id), index),
                           Variable_Unnamed(id)) :
                       id \in UnnamedIds, index \in 0..MaxTupleIndex}
    /\ rhs = <<>>
    /\ before = <<>>
    /\ op = "init"
    /\ result = "none"
    /\ calls = 0
    /\ NoSplit

IsVariable(value) == value[1] \in {"Variable::Named", "Variable::Unnamed"}

IsResolvedItems(variable) ==
    variable[1] = "Variable::Named" => variable[2][1] = "ResolvedItems"

(* let result = self.to_string() for a Variable<ResolvedItems> *)
ToStringResolvedItems ==
    /\ op = "init"
    /\ IsVariable(self) /\ IsResolvedItems(self)
    /\ result' = Variable_ResolvedItems_to_string(self)
    /\ op' = "to_string_resolved_items"
    /\ UNCHANGED <<self, rhs, before, calls>>
    /\ UNCHANGED split_vars

(* let result = self.to_string() for a Variable<(Uuid, HIRType)> *)
ToStringUuidHIRType ==
    /\ op = "init"
    /\ IsVariable(self)
    /\ self[1] = "Variable::Named" => self[2][1] # "ResolvedItems"
    /\ result' = Variable_Uuid_HIRType_to_string(self)
    /\ op' = "to_string_uuid_type"
    /\ UNCHANGED <<self, rhs, before, calls>>
    /\ UNCHANGED split_vars

(* let result = self.to_string() for an HIRExpression *)
ToStringExpression ==
    /\ op = "init"
    /\ ~IsVariable(self)
    /\ result' = HIRExpression_to_string(self)
    /\ op' = "to_string_expression"
    /\ UNCHANGED <<self, rhs, before, calls>>
    /\ UNCHANGED split_vars

NextPrint == ToStringResolvedItems \/ ToStringUuidHIRType \/ ToStringExpression

SpecPrint == InitPrint /\ [][NextPrint]_vars

-----------------------------------------------------------------------------
(* Properties of the printed forms (SpecPrint) *)

(* C21: the printed form of a named variable of the resolved-items stage   *)
(* shows each candidate as its identifier followed by its type: one        *)
(* candidate (id, ty) prints as "<id>: <printed ty>", several print as     *)
(* "$either(<id1>: <ty1>, <id2>: <ty2>, ...)"; the type shown is the       *)
(* candidate's type in both cases.                                         *)
C21_CandidateWithType ==
    LET shown(candidate) == candidate[2] \o ": " \o HIRType_to_string(candidate[3])
    IN /\ (op = "to_string_resolved_items" /\ self[1] = "Variable::Named") =>
             LET candidates == self[2][2]
             IN /\ Len(candidates) = 1 => result = shown(candidates[1])
                /\ Len(candidates) > 1 =>
                      result = "$either("
                               \o join([i \in 1..Len(candidates) |-> shown(candidates[i])], ", ")
                               \o ")"
       /\ (op = "to_string_uuid_type" /\ self[1] = "Variable::Named") =>
             result = self[2][1] \o ": " \o HIRType_to_string(self[2][2])

(* the suffix that the rule of C23 gives to n *)
ordinal_by_rule(n) ==
    IF n \in 11..19 THEN "th"
    ELSE IF n % 10 = 1 THEN "st"
    ELSE IF n % 10 = 2 THEN "nd"
    ELSE IF n % 10 = 3 THEN "rd"
    ELSE "th"

(* C23: the ordinal suffix printed after a tuple index n is "th" for every *)
(* n from 11 to 19 and otherwise "st", "nd" or "rd" when the last decimal  *)
(* digit of n is 1, 2 or 3 and "th" when it is not; tuple-item access and  *)
(* assignment to a tuple slot print the same suffix.                       *)
C23_OrdinalSuffix ==
    op = "to_string_expression" =>
        LET target == IF self[1] = "Assign" THEN self[2] ELSE self
            slot == "$" \o usize_to_string(target[2][2]) \o "."
                    \o usize_to_string(target[3]) \o ordinal_by_rule(target[3])
        IN IF self[1] = "Assign"
           THEN result = slot \o " = $" \o usize_to_string(self[3][2])
           ELSE result = slot

C23_Witness ==
    /\ op = "to_string_expression"
    /\ self[1] = "Assign"
    /\ self[2][3] = 12
    /\ result = "$12.12th = $12"

-----------------------------------------------------------------------------
(* tests::test_analysis_statements: the two HIR programs that the test     *)
(* pins as the lowering of CODE1 and CODE2.  A statement keeps its variant *)
(* and, for a Binding, its variable_id and its expression; an expression   *)
(* keeps its variant, the bodies it nests and, for IfLet, its              *)
(* condition_binding.  Types, operands and result variables are left out.  *)

Binding(variable_id, expression) == <<"Binding", variable_id, expression>>

HIRStatement_Other(variant) == <<variant>>

HIRExpression_If(then, other) == <<"If", then, other>>

HIRExpression_IfLet(condition_binding, then, other) == <<"IfLet", condition_binding, then, other>>

HIRExpression_Loop(body) == <<"Loop", body>>

HIRExpression_Other(variant) == <<variant>>

(* lines 754-1146 *)
expected_statements_CODE1 ==
    <<
      Binding(0, HIRExpression_Other("Immediate")),
      Binding(1, HIRExpression_Other("AccessVariable")),
      Binding(2, HIRExpression_Other("Immediate")),
      Binding(3, HIRExpression_Other("CallFunction")),
      Binding(4, HIRExpression_Other("CallFunction")),
      Binding(5, HIRExpression_Other("AccessVariable")),
      Binding(6, HIRExpression_Other("Immediate")),
      Binding(7, HIRExpression_Other("AccessVariable")),
      Binding(18, HIRExpression_Loop(<<
        Binding(8, HIRExpression_Other("Immediate")),
        Binding(9, HIRExpression_Other("CallFunction")),
        Binding(10, HIRExpression_Other("CallFunction")),
        Binding(11, HIRExpression_Other("CallFunction")),
        Binding(12, HIRExpression_Other("ConstructTuple")),
        Binding(13, HIRExpression_If(<<
          HIRStatement_Other("Break")
        >>, <<>>)),
        Binding(14, HIRExpression_Other("CallFunction")),
        Binding(15, HIRExpression_Other("Immediate")),
        Binding(16, HIRExpression_Other("CallFunction")),
        Binding(17, HIRExpression_Other("Assign"))
      >>)),
      Binding(19, HIRExpression_Other("Immediate")),
      Binding(20, HIRExpression_Other("AccessVariable")),
      Binding(45, HIRExpression_Loop(<<
        Binding(21, HIRExpression_Other("CallFunction")),
        Binding(22, HIRExpression_Other("CallFunction")),
        Binding(23, HIRExpression_Other("CallFunction")),
        Binding(24, HIRExpression_Other("ConstructTuple")),
        Binding(25, HIRExpression_If(<<
          HIRStatement_Other("Break")
        >>, <<>>)),
        Binding(26, HIRExpression_Other("CallFunction")),
        Binding(29, HIRExpression_If(<<
          HIRStatement_Other("Continue"),
          Binding(27, HIRExpression_Other("ConstructTuple"))
        >>, <<
          Binding(28, HIRExpression_Other("ConstructTuple"))
        >>)),
        Binding(30, HIRExpression_Other("CallFunction")),
        Binding(31, HIRExpression_Other("AccessVariable")),
        Binding(40, HIRExpression_Loop(<<
          Binding(32, HIRExpression_Other("CallFunction")),
          Binding(33, HIRExpression_Other("CallFunction")),
          Binding(34, HIRExpression_Other("CallFunction")),
          Binding(35, HIRExpression_Other("ConstructTuple")),
          Binding(36, HIRExpression_If(<<
            HIRStatement_Other("Break")
          >>, <<>>)),
          Binding(37, HIRExpression_Other("CallFunction")),
          Binding(38, HIRExpression_Other("CallFunction")),
          Binding(39, HIRExpression_Other("Assign"))
        >>)),
        Binding(41, HIRExpression_Other("ConstructTuple")),
        Binding(42, HIRExpression_Other("Immediate")),
        Binding(43, HIRExpression_Other("CallFunction")),
        Binding(44, HIRExpression_Other("Assign"))
      >>)),
      Binding(46, HIRExpression_Other("CallFunction")),
      Binding(47, HIRExpression_Other("CallFunction")),
      Binding(54, HIRExpression_If(<<
        Binding(48, HIRExpression_Other("Immediate")),
        Binding(49, HIRExpression_Other("CallFunction")),
        Binding(50, HIRExpression_Other("ConstructTuple"))
      >>, <<
        Binding(51, HIRExpression_Other("Immediate")),
        Binding(52, HIRExpression_Other("CallFunction")),
        Binding(53, HIRExpression_Other("ConstructTuple"))
      >>))
    >>

(* lines 1151-1345 *)
expected_statements_CODE2 ==
    <<
      Binding(0, HIRExpression_Other("CallFunction")),
      Binding(1, HIRExpression_Other("AccessVariable")),
      Binding(2, HIRExpression_Other("AccessMember")),
      Binding(3, HIRExpression_Other("CallFunction")),
      Binding(4, HIRExpression_Other("AccessVariable")),
      Binding(5, HIRExpression_Other("Immediate")),
      Binding(6, HIRExpression_Other("CallFunction")),
      Binding(23, HIRExpression_Loop(<<
        Binding(7, HIRExpression_Other("CallFunction")),
        Binding(10, HIRExpression_IfLet(8, <<>>, <<
          HIRStatement_Other("Break"),
          Binding(9, HIRExpression_Other("ConstructTuple"))
        >>)),
        Binding(11, HIRExpression_Other("AccessMember")),
        Binding(12, HIRExpression_Other("CallFunction")),
        Binding(13, HIRExpression_Other("CallFunction")),
        Binding(14, HIRExpression_Other("CallFunction")),
        Binding(15, HIRExpression_Other("CallFunction")),
        Binding(16, HIRExpression_Other("CallFunction")),
        Binding(22, HIRExpression_Loop(<<
          Binding(17, HIRExpression_Other("CallFunction")),
          Binding(20, HIRExpression_IfLet(18, <<
            Binding(19, HIRExpression_Other("AccessMember"))
          >>, <<
            HIRStatement_Other("Break"),
            Binding(20, HIRExpression_Other("ConstructTuple"))
          >>)),
          Binding(21, HIRExpression_Other("CallFunction"))
        >>))
      >>))
    >>

(* the bodies that an expression nests, in source order *)
nested_bodies(expression) ==
    CASE expression[1] = "If" -> <<expression[2], expression[3]>>
      [] expression[1] = "IfLet" -> <<expression[3], expression[4]>>
      [] expression[1] = "Loop" -> <<expression[2]>>
      [] OTHER -> <<>>

(* A walk over one program in source order.  self is the program, rhs the  *)
(* stack of statement lists still to visit, innermost first, and result    *)
(* the variable_ids of the Bindings and the condition_bindings of the      *)
(* IfLets met so far.                                                      *)
InitWalk ==
    /\ self \in {expected_statements_CODE1, expected_statements_CODE2}
    /\ rhs = <<self>>
    /\ before = <<>>
    /\ op = "walk"
    /\ result = [variable_ids |-> <<>>, condition_bindings |-> <<>>]
    /\ calls = 0
    /\ NoSplit

(* the next statement is a Binding: note its ids and enter its bodies *)
VisitBinding ==
    /\ op = "walk"
    /\ rhs # <<>> /\ Head(rhs) # <<>>
    /\ LET statement == Head(Head(rhs))
       IN /\ statement[1] = "Binding"
          /\ result' = [variable_ids |-> Append(result.variable_ids, statement[2]),
                        condition_bindings |->
                            IF statement[3][1] = "IfLet"
                            THEN Append(result.condition_bindings, statement[3][2])
                            ELSE result.condition_bindings]
          /\ rhs' = nested_bodies(statement[3]) \o <<Tail(Head(rhs))>> \o Tail(rhs)
    /\ UNCHANGED <<self, before, op, calls>>
    /\ UNCHANGED split_vars

(* the next statement is Unreachable, Return, Continue or Break *)
VisitOther ==
    /\ op = "walk"
    /\ rhs # <<>> /\ Head(rhs) # <<>>
    /\ Head(Head(rhs))[1] # "Binding"
    /\ rhs' = <<Tail(Head(rhs))>> \o Tail(rhs)
    /\ UNCHANGED <<self, before, op, result, calls>>
    /\ UNCHANGED split_vars

(* the innermost list is finished *)
LeaveBody ==
    /\ op = "walk"
    /\ rhs # <<>> /\ Head(rhs) = <<>>
    /\ rhs' = Tail(rhs)
    /\ UNCHANGED <<self, before, op, result, calls>>
    /\ UNCHANGED split_vars

NextWalk == VisitBinding \/ VisitOther \/ LeaveBody

SpecWalk == InitWalk /\ [][NextWalk]_vars

(* C22: in the HIR programs that the lowering test pins, no two Binding    *)
(* statements of one program, at any nesting depth, carry the same         *)
(* variable_id, and no Binding's variable_id equals the condition_binding  *)
(* of an IfLet of the same program.                                        *)
C22_UniqueVariableIds ==
    op = "walk" =>
        /\ \A i, j \in 1..Len(result.variable_ids) :
              result.variable_ids[i] = result.variable_ids[j] => i = j
        /\ \A i \in 1..Len(result.variable_ids), j \in 1..Len(result.condition_bindings) :
              result.variable_ids[i] # result.condition_bindings[j]

-----------------------------------------------------------------------------
(* HIRType::infer_temporary *)

RECURSIVE infer_temporary(_)

(* line 463: Named { .. } => ty.clone() *)
infer_temporary_Named(ty) == ty

infer_temporary(ty) ==
    CASE Kind(ty) = "Infer" -> Tuple(<<>>)
      [] Kind(ty) \in {"Unreachable", "GenericsTypeArgument"} -> ty
      [] Kind(ty) = "Named" -> infer_temporary_Named(ty)
      [] Kind(ty) = "Tuple" -> Tuple([i \in 1..Len(ty[2]) |-> infer_temporary(ty[2][i])])
      [] Kind(ty) = "Array" -> Array(infer_temporary(ty[2]))
      [] Kind(ty) = "Function" ->
            Function([i \in 1..Len(ty[2]) |-> infer_temporary(ty[2][i])],
                     infer_temporary(ty[3]))
      [] Kind(ty) = "AnonymousStruct" ->
            AnonymousStruct([i \in 1..Len(ty[2]) |->
                                <<ty[2][i][1], infer_temporary(ty[2][i][2])>>])
      [] Kind(ty) = "Or" -> Or([i \in 1..Len(ty[2]) |-> infer_temporary(ty[2][i])])

(* let result = self.infer_temporary() *)
InferTemporary ==
    /\ op = "init"
    /\ result' = infer_temporary(self)
    /\ op' = "infer_temporary"
    /\ UNCHANGED <<self, rhs, before, calls>>
    /\ UNCHANGED split_vars

NextInfer == InferTemporary

SpecInfer == InitType /\ [][NextInfer]_vars

(* ty with every Infer, at any position, replaced by the empty tuple *)
RECURSIVE without_Infer(_)
without_Infer(ty) ==
    CASE Kind(ty) = "Infer" -> Tuple(<<>>)
      [] Kind(ty) \in {"Unreachable", "GenericsTypeArgument"} -> ty
      [] Kind(ty) = "Named" -> Named(ty[2], [i \in 1..Len(ty[3]) |-> without_Infer(ty[3][i])])
      [] Kind(ty) \in {"Tuple", "Or"} ->
            <<Kind(ty), [i \in 1..Len(ty[2]) |-> without_Infer(ty[2][i])]>>
      [] Kind(ty) = "Array" -> Array(without_Infer(ty[2]))
      [] Kind(ty) = "Function" ->
            Function([i \in 1..Len(ty[2]) |-> without_Infer(ty[2][i])], without_Infer(ty[3]))
      [] Kind(ty) = "AnonymousStruct" ->
            AnonymousStruct([i \in 1..Len(ty[2]) |-> <<ty[2][i][1], without_Infer(ty[2][i][2])>>])

(* C24: infer_temporary removes every placeholder: the result contains no  *)
(* Infer at any position, the generic arguments of Named types included,   *)
(* and equals the receiver with each Infer replaced by the empty tuple.    *)
C24_NoInferLeft ==
    op = "infer_temporary" =>
        /\ ~contains_Infer(result)
        /\ result = without_Infer(self)

-----------------------------------------------------------------------------
(* enum StatementReachable and StatementReachable::combine.  combine       *)
(* assigns through &mut self; the operator returns the value assigned.     *)

Reachable == <<"Reachable">>

UnreachableByReturn == <<"UnreachableByReturn">>

UnreachableByBreak(label) == <<"UnreachableByBreak", label>>

(* the mutation of combine that tries the UnreachableByBreak arms first *)
combine_Break_first(this, other) ==
    CASE this[1] = "UnreachableByBreak" -> UnreachableByBreak(None)
      [] other[1] = "UnreachableByBreak" -> UnreachableByBreak(None)
      [] this[1] = "Reachable" -> Reachable
      [] other[1] = "Reachable" -> Reachable
      [] OTHER -> UnreachableByReturn

combine(this, other) ==
    CASE this[1] = "Reachable" -> Reachable
      [] other[1] = "Reachable" -> Reachable
      [] this[1] = "UnreachableByBreak" -> UnreachableByBreak(None)
      [] other[1] = "UnreachableByBreak" -> UnreachableByBreak(None)
      [] OTHER -> UnreachableByReturn

(* the folded sequences have at most this many flags *)
MaxFlags == 4

Labels == {"a", "b"}

Flags ==
    {Reachable, UnreachableByReturn, UnreachableByBreak(None)}
    \cup {UnreachableByBreak(Some(label)) : label \in Labels}

RECURSIVE FlagsOfLen(_)
FlagsOfLen(n) ==
    IF n = 0 THEN {<<>>}
    ELSE {<<flag>> \o rest : flag \in Flags, rest \in FlagsOfLen(n - 1)}

(* A fold of combine over the flags of self: result is the accumulator,    *)
(* which starts as the first flag, and rhs the flags still to combine.     *)
InitFold ==
    /\ \E n \in 1..MaxFlags : self \in FlagsOfLen(n)
    /\ rhs = Tail(self)
    /\ before = <<>>
    /\ op = "fold"
    /\ result = Head(self)
    /\ calls = 0
    /\ NoSplit

(* result.combine(next flag) *)
Combine ==
    /\ op = "fold"
    /\ rhs # <<>>
    /\ result' = combine(result, Head(rhs))
    /\ rhs' = Tail(rhs)
    /\ calls' = calls + 1
    /\ UNCHANGED <<self, before, op>>
    /\ UNCHANGED split_vars

NextFold == Combine

SpecFold == InitFold /\ [][NextFold]_vars

(* what the rule of C25 gives for the flags combined so far *)
combined_by_rule(flags) ==
    IF \E i \in 1..Len(flags) : flags[i] = Reachable THEN Reachable
    ELSE IF \E i \in 1..Len(flags) : flags[i][1] = "UnreachableByBreak"
    THEN UnreachableByBreak(None)
    ELSE UnreachableByReturn

RECURSIVE fold_combine(_, _)
fold_combine(accumulator, flags) ==
    IF flags = <<>> THEN accumulator
    ELSE fold_combine(combine(accumulator, Head(flags)), Tail(flags))

Reorderings(flags) ==
    {[i \in 1..Len(flags) |-> flags[f[i]]] :
        f \in {g \in [1..Len(flags) -> 1..Len(flags)] :
                  \A i, j \in 1..Len(flags) : g[i] = g[j] => i = j}}

(* C25: combine is determined by the two flags alone: Reachable if either  *)
(* side is Reachable, otherwise UnreachableByBreak(None) if either side is *)
(* UnreachableByBreak with any label, the same label on both sides         *)
(* included, otherwise UnreachableByReturn; so the fold of combine over a  *)
(* sequence of flags does not depend on the order of the sequence.         *)
C25_CombineByFlags ==
    op = "fold" =>
        LET done == SubSeq(self, 1, Len(self) - Len(rhs))
        IN /\ calls > 0 => result = combined_by_rule(done)
           /\ \A flags \in Reorderings(done) :
                 fold_combine(Head(flags), Tail(flags)) = result

C25_Witness ==
    /\ op = "fold"
    /\ rhs = <<>>
    /\ self = <<UnreachableByBreak(Some("a")), UnreachableByBreak(Some("a"))>>
    /\ result = UnreachableByBreak(None)

-----------------------------------------------------------------------------
(* is_a along a chain of three types that contain no Infer: self, rhs and  *)
(* a third type held in before.                                            *)

(* the three types have at most this many nodes together *)
MaxTripleSize == 5

(* the values without Infer, tabulated by number of nodes *)
Solid1 == Types1 \ {Infer}

Solid2 == TypesOfSize(2, <<Solid1>>)

Solid3 == TypesOfSize(3, <<Solid1, Solid2>>)

SolidTable == <<Solid1, Solid2, Solid3>>

SolidVariants == Variants \ {"Infer"}

InitTriple ==
    /\ \E k \in 1..(MaxTripleSize - 2) : \E j \in 1..(MaxTripleSize - 1 - k) :
          \E l \in 1..(MaxTripleSize - k - j) :
             \E v \in SolidVariants : \E w \in SolidVariants : \E x \in SolidVariants :
                \E p \in TypesOfVariant(v, k, SolidTable) \X TypesOfVariant(w, j, SolidTable)
                         \X TypesOfVariant(x, l, SolidTable) :
                   self = p[1] /\ rhs = p[2] /\ before = p[3]
    /\ op = "init"
    /\ result = "none"
    /\ calls = 0
    /\ NoSplit

(* let result = (self.is_a(&rhs), rhs.is_a(&third), self.is_a(&third)) *)
IsAChain ==
    /\ op = "init"
    /\ result' = <<is_a(self, rhs), is_a(rhs, before), is_a(self, before)>>
    /\ op' = "is_a_chain"
    /\ UNCHANGED <<self, rhs, before, calls>>
    /\ UNCHANGED split_vars

NextTriple == IsAChain

SpecTriple == InitTriple /\ [][NextTriple]_vars

(* C26: is_a is transitive on types that contain no Infer, empty unions    *)
(* and Unreachable included: if t.is_a(u) and u.is_a(v) then t.is_a(v).    *)
C26_Transitive ==
    op = "is_a_chain" => (result[1] /\ result[2] => result[3])

C26_Witness ==
    /\ op = "is_a_chain"
    /\ Kind(self) = "Tuple" /\ Len(self[2]) = 1
    /\ rhs = Tuple(<<>>)
    /\ Kind(before) = "Or" /\ Len(before[2]) = 1
    /\ result = <<TRUE, TRUE, TRUE>>

-----------------------------------------------------------------------------
(* The strict and the lenient predicate on one pair, the lenient one in    *)
(* both directions                                                         *)

(* let result = (self.is_a(&rhs), self.possibility_assignable_to(&rhs),    *)
(*               rhs.possibility_assignable_to(&self))                     *)
Compare ==
    /\ op = "init"
    /\ result' = [is_a |-> is_a(self, rhs),
                  possibility |-> possibility_assignable_to(self, rhs),
                  reversed |-> possibility_assignable_to(rhs, self)]
    /\ op' = "compare"
    /\ UNCHANGED <<self, rhs, before, calls>>
    /\ UNCHANGED split_vars

NextCompare == Compare

SpecCompare == InitKindPair /\ [][NextCompare]_vars

(* C27: possibility_assignable_to is symmetric: for every pair of types t  *)
(* and u, t.possibility_assignable_to(u) equals                            *)
(* u.possibility_assignable_to(t).                                         *)
C27_Symmetric ==
    op = "compare" => result.possibility = result.reversed

(* C28: the lenient predicate is at least as permissive as the strict one: *)
(* for every pair of types t and u, if t.is_a(u) is true then              *)
(* t.possibility_assignable_to(u) is true, t = Unreachable, Function types *)
(* related by variance and Named types whose generic arguments contain     *)
(* Infer included.                                                         *)
C28_LenientCoversStrict ==
    op = "compare" => (result.is_a => result.possibility)

-----------------------------------------------------------------------------
(* intersect_to against the receiver (SpecUnionPair) *)

(* C29: intersect_to only narrows: for every pair (self, target),          *)
(* self.intersect_to(target).is_a(self) is true; when self is an           *)
(* AnonymousStruct the result still has every field of self, also when the *)
(* target is a union none of whose components is an anonymous struct that  *)
(* is_a self.                                                              *)
C29_OnlyNarrows ==
    (op = "intersect_to" /\ result # Panic) =>
        /\ is_a(result, self)
        /\ Kind(self) = "AnonymousStruct" =>
              /\ Kind(result) = "AnonymousStruct"
              /\ \A i \in 1..Len(self[2]) : contains_key(result[2], self[2][i][1])

-----------------------------------------------------------------------------
(* The projections before and after normalization (SpecProjection) *)

(* C30: normalization does not change what a type exposes: for every type  *)
(* t, member name m and index n, t.has_member(m) equals                    *)
(* into_normalized(t).has_member(m) and t.has_tuple_item(n) equals         *)
(* into_normalized(t).has_tuple_item(n), unions that contain Unreachable   *)
(* or nested unions included.                                              *)
C30_NormalizeKeepsProjections ==
    /\ op = "member_type" => result[3] = has_member(into_normalized(self), result[1])
    /\ op = "tuple_item_type" => result[3] = has_tuple_item(into_normalized(self), result[1])

====
